---------------------------- MODULE Spec2Model ----------------------------
(***************************************************************************)
(* ICMsg transport (src/src/transport.rs): two single-producer /          *)
(* single-consumer rings in shared memory, one per direction.  Region e   *)
(* is the send region of endpoint e and the recv region of its peer.      *)
(* Sender::send and Receiver::try_recv are modelled statement by          *)
(* statement, so that the two cores interleave at every access to shared  *)
(* memory.  Bonding (IcMsg::init) runs on top of them: each endpoint      *)
(* zeroes its send region, sends MAGIC, waits for the peer's signal and    *)
(* receives the peer's MAGIC.                                              *)
(***************************************************************************)
EXTENDS Integers, Sequences, FiniteSets, TLC

(***************************************************************************)
(* Bounds of the model.                                                    *)
(***************************************************************************)
MaxSends == 3
MaxMsgLen == 9
ExtraWords == 1
MaxPulses == 1

(***************************************************************************)
(* Program constants.                                                      *)
(***************************************************************************)
TestBufLen == 16
MinBufLen == 24
TestOutLen == 8
HeaderSize == 4
U16 == 65536
BondOutLen == 32

\* MAGIC, the 13 bytes each endpoint sends to bond.
MAGIC == << 69, 109, 49, 108, 49, 75, 48, 114, 110, 51, 108, 105, 52 >>

Endpoints == {1, 2}

Peer(e) == 3 - e

\* A byte of memory holds a value 0..255 or is uninitialised (the data area
\* as allocated, MaybeUninit::uninit()).  Copying an uninitialised byte keeps
\* it uninitialised; reading it as an integer yields any of JunkBytes.
Uninit == -1

JunkBytes == {0, 255}

\* The values reading the byte b as a u8 may yield.
ReadByte(b) == IF b = Uninit THEN JunkBytes ELSE {b}

(***************************************************************************)
(* Pure helpers of send and try_recv.                                      *)
(***************************************************************************)
\* msg.len() + (4 - msg.len() % 4) % 4
PaddedLen(n) == n + ((4 - (n % 4)) % 4)

\* The frame of an n byte message: header and padded payload.
FrameLen(n) == PaddedLen(n) + HeaderSize

\* BeU16::from(u16) as laid out in memory: most significant byte first.
BeU16Bytes(v) == << (v % U16) \div 256, (v % U16) % 256 >>

\* BeU16::value: the u16 read back from the two bytes in memory.
BeU16Value(b) == b[1] * 256 + b[2]

\* PacketHeader::new(len as u16); the reserved bytes are left uninitialised.
PacketHeaderBytes(n) == BeU16Bytes(n % U16) \o << Uninit, Uninit >>

\* Mutant of FreeSpace: no byte is kept in reserve.
FreeSpace_NoReserve(rd, wr, blen) ==
    IF rd > wr THEN rd - wr ELSE rd + blen - wr

\* Mutant of FreeSpace: with wr_idx ahead of rd_idx, only the bytes up to
\* the end of the data area are counted, not those before rd_idx.
FreeSpace_NoStart(rd, wr, blen) ==
    IF rd > wr THEN rd - wr - 1 ELSE blen - wr - 1

\* Mutant of FreeSpace: the branch for rd_idx ahead of wr_idx is forgotten.
FreeSpace_OneBranch(rd, wr, blen) == rd + blen - wr - 1

\* free_space of Sender::send.  wr is the cached send_wr_idx, below blen, so
\* neither branch goes below zero.
FreeSpace(rd, wr, blen) ==
    IF rd > wr THEN rd - wr - 1 ELSE rd + blen - wr - 1

\* idx += 4; if idx >= buffer_len { idx = 0 }: the index past a header.
SkipHeader(idx, blen) == IF idx + 4 >= blen THEN 0 ELSE idx + 4

\* Mutant of SendAdvance: the padding is not skipped.
SendAdvance_NoPad(wr, n, blen) ==
    IF wr + n >= blen THEN wr + n - blen ELSE wr + n

\* wr_idx += padded_msg_len; if wr_idx >= len { wr_idx -= len }: the index
\* past the padded payload of an n byte message, in send.
SendAdvance(wr, n, blen) ==
    IF wr + PaddedLen(n) >= blen THEN wr + PaddedLen(n) - blen ELSE wr + PaddedLen(n)

\* Mutant of RecvAdvance: the padding is not skipped.
RecvAdvance_NoPad(rd, n, blen) ==
    IF rd + n >= blen THEN rd + n - blen ELSE rd + n

\* rd_idx += padded_msg_len; if rd_idx >= len { rd_idx -= len }: the same
\* in try_recv.
RecvAdvance(rd, n, blen) ==
    IF rd + PaddedLen(n) >= blen THEN rd + PaddedLen(n) - blen ELSE rd + PaddedLen(n)

\* ptr.add(off).copy_from_nonoverlapping(bytes): the data area after the copy.
CopyIn(d, off, bytes) ==
    [i \in DOMAIN d |->
        IF i >= off /\ i < off + Len(bytes) THEN bytes[i - off + 1] ELSE d[i]]

\* The byte a read at offset i of the data area gives: what lies beyond the
\* data area is memory of unknown contents.
ByteAt(d, i) == IF i \in DOMAIN d THEN d[i] ELSE Uninit

\* ptr.add(off).copy_to_nonoverlapping(out + at, n): the caller's buffer after
\* the copy of n bytes of the data area to out[at + 1 .. at + n].
CopyOut(out, at, d, off, n) ==
    [j \in DOMAIN out |->
        IF j > at /\ j <= at + n THEN ByteAt(d, off + (j - at - 1)) ELSE out[j]]

\* An access of n bytes at offset off leaves an area of len bytes.  An access
\* of no bytes touches nothing.
Outside(off, n, len) == n > 0 /\ (off < 0 \/ off + n > len)

\* The k-th message of a caller, n bytes long: every byte names its message
\* and its place in it.
Payload(k, n) == [j \in 1..n |-> (16 * k + j) % 256]

VARIABLES
    send_buffer_len,  \* Sender.send_buffer_len, per endpoint
    recv_buffer_len,  \* Receiver.recv_buffer_len, per endpoint
    rd_idx,           \* SharedMemoryRegionHeader.rd_idx, per region
    wr_idx,           \* SharedMemoryRegionHeader.wr_idx, per region
    data,             \* the data area of each region
    send_wr_idx,      \* Sender.send_wr_idx
    recv_rd_idx,      \* Receiver.recv_rd_idx
    s_pc,             \* position of each endpoint's sender inside send
    s_msg,            \* send: msg
    s_wr,             \* send: local wr_idx (0 outside a call)
    s_rd,             \* send: local rd_idx (0 outside a call)
    s_res,            \* result of the last send that returned
    r_pc,             \* position of each endpoint's receiver inside try_recv
    r_out,            \* try_recv: the caller's buffer msg
    r_wr,             \* try_recv: local wr_idx (0 outside a call)
    r_rd,             \* try_recv: local rd_idx (0 outside a call)
    r_len,            \* try_recv: msg_len
    r_res,            \* result of the last try_recv that returned
    notified,         \* how often each endpoint's mbox.notify() ran
    sent,             \* per region: the messages send accepted, in order
    received,         \* per region: the messages try_recv returned, in order
    harness,          \* the callers: who sends, who receives, with what inputs
    b_pc,             \* position of each endpoint in bonding
    b_err,            \* the error bonding failed with ("none" if it did not)
    b_pulses,         \* bonding: how often the 1 ms timer won the race
                      \* (0 outside the loop)
    heard,            \* per endpoint: the peer's notifications its waiter
                      \* has taken or lost; the mailbox holds a signal for
                      \* the endpoint while the peer's count is above it
    a_pc,             \* position of each endpoint's receiver inside recv
    a_len,            \* recv: the length of the caller's buffer
    a_ready,          \* recv: the armed poll of the wait returned Ready
    s_oob,            \* send has written outside the data area
    r_oob,            \* try_recv has read outside the data area or written
                      \* outside the caller's buffer
    turn,             \* twin runs: the endpoint whose step is next
    probe             \* one send and the try_recv that meets its frame, the
                      \* message given by its length alone

shared == << rd_idx, wr_idx, data >>
lens == << send_buffer_len, recv_buffer_len >>
s_vars == << send_wr_idx, s_pc, s_msg, s_wr, s_rd, s_res, notified, sent,
            s_oob >>
r_vars == << recv_rd_idx, r_pc, r_out, r_wr, r_rd, r_len, r_res, received,
            r_oob >>
b_vars == << b_pc, b_err, b_pulses, heard >>
a_vars == << a_pc, a_len, a_ready >>
\* What the steps inside send and try_recv leave alone.
c_vars == << b_vars, a_vars, turn, probe >>
vars == << lens, shared, s_vars, r_vars, harness, c_vars >>

(***************************************************************************)
(* Sender::send, transport.rs 188-249.                                     *)
(***************************************************************************)
\* Mutant of SendCall: wr_idx is loaded from shared memory, not taken from
\* the cached send_wr_idx.
SendCall_SharedWr(e, m) ==
    /\ s_pc[e] = "idle"
    /\ s_msg' = [s_msg EXCEPT ![e] = m]
    /\ s_wr' = [s_wr EXCEPT ![e] = wr_idx[e]]
    /\ s_pc' = [s_pc EXCEPT ![e] = "load_rd"]
    /\ UNCHANGED << lens, shared, r_vars, harness, send_wr_idx, s_rd, s_res,
                    notified, sent, s_oob >>

\* The call: let mut wr_idx = self.send_wr_idx (line 189).
SendCall(e, m) ==
    /\ s_pc[e] = "idle"
    /\ s_msg' = [s_msg EXCEPT ![e] = m]
    /\ s_wr' = [s_wr EXCEPT ![e] = send_wr_idx[e]]
    /\ s_pc' = [s_pc EXCEPT ![e] = "load_rd"]
    /\ UNCHANGED << lens, shared, r_vars, harness, send_wr_idx, s_rd, s_res,
                    notified, sent, s_oob >>

\* Mutant of SendLoadRd: the header is written before the capacity check.
SendLoadRd_HeaderFirst(e) ==
    /\ s_pc[e] = "load_rd"
    /\ data' = [data EXCEPT ![e] =
                  CopyIn(@, s_wr[e], PacketHeaderBytes(Len(s_msg[e])))]
    /\ LET rd == rd_idx[e]
           free == FreeSpace(rd, s_wr[e], send_buffer_len[e])
       IN IF free < PaddedLen(Len(s_msg[e])) + HeaderSize
          THEN /\ s_res' = [s_res EXCEPT ![e] = "InsufficientCapacity"]
               /\ s_pc' = [s_pc EXCEPT ![e] = "idle"]
               /\ s_wr' = [s_wr EXCEPT ![e] = 0]
               /\ UNCHANGED s_rd
          ELSE /\ s_rd' = [s_rd EXCEPT ![e] = rd]
               /\ s_pc' = [s_pc EXCEPT ![e] = "header"]
               /\ UNCHANGED << s_res, s_wr >>
    /\ UNCHANGED << lens, rd_idx, wr_idx, r_vars, harness, send_wr_idx, s_msg,
                    notified, sent, s_oob >>

\* Mutant of SendLoadRd: the capacity check counts the message without its
\* padding.
SendLoadRd_Unpadded(e) ==
    /\ s_pc[e] = "load_rd"
    /\ LET rd == rd_idx[e]
           free == FreeSpace(rd, s_wr[e], send_buffer_len[e])
       IN IF free < Len(s_msg[e]) + HeaderSize
          THEN /\ s_res' = [s_res EXCEPT ![e] = "InsufficientCapacity"]
               /\ s_pc' = [s_pc EXCEPT ![e] = "idle"]
               /\ s_wr' = [s_wr EXCEPT ![e] = 0]
               /\ UNCHANGED s_rd
          ELSE /\ s_rd' = [s_rd EXCEPT ![e] = rd]
               /\ s_pc' = [s_pc EXCEPT ![e] = "header"]
               /\ UNCHANGED << s_res, s_wr >>
    /\ UNCHANGED << lens, shared, r_vars, harness, send_wr_idx, s_msg,
                    notified, sent, s_oob >>

\* The Acquire load of rd_idx and the capacity check (lines 190-202).
SendLoadRd(e) ==
    /\ s_pc[e] = "load_rd"
    /\ LET rd == rd_idx[e]
           free == FreeSpace(rd, s_wr[e], send_buffer_len[e])
       IN IF free < PaddedLen(Len(s_msg[e])) + HeaderSize
          THEN /\ s_res' = [s_res EXCEPT ![e] = "InsufficientCapacity"]
               /\ s_pc' = [s_pc EXCEPT ![e] = "idle"]
               /\ s_wr' = [s_wr EXCEPT ![e] = 0]
               /\ UNCHANGED s_rd
          ELSE /\ s_rd' = [s_rd EXCEPT ![e] = rd]
               /\ s_pc' = [s_pc EXCEPT ![e] = "header"]
               /\ UNCHANGED << s_res, s_wr >>
    /\ UNCHANGED << lens, shared, r_vars, harness, send_wr_idx, s_msg,
                    notified, sent, s_oob >>

\* Mutant of SendWriteHeader: the advanced wr_idx is stored to shared memory
\* with the header, before the payload is copied.
SendWriteHeader_PublishEarly(e) ==
    /\ s_pc[e] = "header"
    /\ data' = [data EXCEPT ![e] =
                  CopyIn(@, s_wr[e], PacketHeaderBytes(Len(s_msg[e])))]
    /\ s_wr' = [s_wr EXCEPT ![e] = SkipHeader(@, send_buffer_len[e])]
    /\ wr_idx' = [wr_idx EXCEPT ![e] =
                    SendAdvance(SkipHeader(s_wr[e], send_buffer_len[e]),
                                Len(s_msg[e]), send_buffer_len[e])]
    /\ s_pc' = [s_pc EXCEPT ![e] = "copy"]
    /\ UNCHANGED << lens, rd_idx, r_vars, harness, send_wr_idx, s_msg,
                    s_rd, s_res, notified, sent, s_oob >>

\* The header write and the first advance of wr_idx (lines 212-220).
SendWriteHeader(e) ==
    /\ s_pc[e] = "header"
    /\ data' = [data EXCEPT ![e] =
                  CopyIn(@, s_wr[e], PacketHeaderBytes(Len(s_msg[e])))]
    /\ s_oob' = [s_oob EXCEPT ![e] =
                   @ \/ Outside(s_wr[e], HeaderSize, send_buffer_len[e])]
    /\ s_wr' = [s_wr EXCEPT ![e] = SkipHeader(@, send_buffer_len[e])]
    /\ s_pc' = [s_pc EXCEPT ![e] = "copy"]
    /\ UNCHANGED << lens, rd_idx, wr_idx, r_vars, harness, send_wr_idx, s_msg,
                    s_rd, s_res, notified, sent >>

\* Mutant of SendCopy: the payload is copied in one piece, and what reaches
\* beyond the end of the data area is not brought round to its start.
SendCopy_NoWrap(e) ==
    /\ s_pc[e] = "copy"
    /\ data' = [data EXCEPT ![e] = CopyIn(@, s_wr[e], s_msg[e])]
    /\ s_pc' = [s_pc EXCEPT ![e] = "store_wr"]
    /\ UNCHANGED << lens, rd_idx, wr_idx, r_vars, harness, send_wr_idx, s_msg,
                    s_wr, s_rd, s_res, notified, sent, s_oob >>

\* The payload copy: all of it, or the part up to the end of the data area
\* (lines 222-234).
SendCopy(e) ==
    /\ s_pc[e] = "copy"
    /\ LET tail_size == send_buffer_len[e] - s_wr[e]
           m == s_msg[e]
       IN IF Len(m) > tail_size
          THEN /\ data' = [data EXCEPT ![e] =
                             CopyIn(@, s_wr[e], SubSeq(m, 1, tail_size))]
               /\ s_oob' = [s_oob EXCEPT ![e] =
                              @ \/ Outside(s_wr[e], tail_size, send_buffer_len[e])]
               /\ s_pc' = [s_pc EXCEPT ![e] = "copy_wrap"]
          ELSE /\ data' = [data EXCEPT ![e] = CopyIn(@, s_wr[e], m)]
               /\ s_oob' = [s_oob EXCEPT ![e] =
                              @ \/ Outside(s_wr[e], Len(m), send_buffer_len[e])]
               /\ s_pc' = [s_pc EXCEPT ![e] = "store_wr"]
    /\ UNCHANGED << lens, rd_idx, wr_idx, r_vars, harness, send_wr_idx, s_msg,
                    s_wr, s_rd, s_res, notified, sent >>

\* The second part of a payload that wraps, copied to the start of the data
\* area (line 229).
SendCopyWrap(e) ==
    /\ s_pc[e] = "copy_wrap"
    /\ LET tail_size == send_buffer_len[e] - s_wr[e]
           m == s_msg[e]
       IN /\ data' = [data EXCEPT ![e] =
                        CopyIn(@, 0, SubSeq(m, tail_size + 1, Len(m)))]
          /\ s_oob' = [s_oob EXCEPT ![e] =
                         @ \/ Outside(0, Len(m) - tail_size, send_buffer_len[e])]
    /\ s_pc' = [s_pc EXCEPT ![e] = "store_wr"]
    /\ UNCHANGED << lens, rd_idx, wr_idx, r_vars, harness, send_wr_idx, s_msg,
                    s_wr, s_rd, s_res, notified, sent >>

\* Mutant of SendStoreWr: send returns once wr_idx is stored, the peer is
\* not notified.
SendStoreWr_Silent(e) ==
    /\ s_pc[e] = "store_wr"
    /\ LET w == SendAdvance(s_wr[e], Len(s_msg[e]), send_buffer_len[e])
       IN /\ send_wr_idx' = [send_wr_idx EXCEPT ![e] = w]
          /\ wr_idx' = [wr_idx EXCEPT ![e] = w]
    /\ sent' = [sent EXCEPT ![e] = Append(@, s_msg[e])]
    /\ s_res' = [s_res EXCEPT ![e] = "Ok"]
    /\ s_pc' = [s_pc EXCEPT ![e] = "idle"]
    /\ s_wr' = [s_wr EXCEPT ![e] = 0]
    /\ s_rd' = [s_rd EXCEPT ![e] = 0]
    /\ UNCHANGED << lens, rd_idx, data, r_vars, harness, s_msg, notified,
                    s_oob >>

\* Mutant of SendStoreWr: the advanced wr_idx is kept in the cached copy
\* and not stored to shared memory before the notification.
SendStoreWr_Unpublished(e) ==
    /\ s_pc[e] = "store_wr"
    /\ LET w == SendAdvance(s_wr[e], Len(s_msg[e]), send_buffer_len[e])
       IN /\ s_wr' = [s_wr EXCEPT ![e] = w]
          /\ send_wr_idx' = [send_wr_idx EXCEPT ![e] = w]
    /\ sent' = [sent EXCEPT ![e] = Append(@, s_msg[e])]
    /\ s_pc' = [s_pc EXCEPT ![e] = "notify"]
    /\ UNCHANGED << lens, shared, r_vars, harness, s_msg, s_rd, s_res,
                    notified, s_oob >>

\* The second advance of wr_idx, the cached copy and the Release store
\* (lines 236-244).
SendStoreWr(e) ==
    /\ s_pc[e] = "store_wr"
    /\ LET w == SendAdvance(s_wr[e], Len(s_msg[e]), send_buffer_len[e])
       IN /\ s_wr' = [s_wr EXCEPT ![e] = w]
          /\ send_wr_idx' = [send_wr_idx EXCEPT ![e] = w]
          /\ wr_idx' = [wr_idx EXCEPT ![e] = w]
    /\ sent' = [sent EXCEPT ![e] = Append(@, s_msg[e])]
    /\ s_pc' = [s_pc EXCEPT ![e] = "notify"]
    /\ UNCHANGED << lens, rd_idx, data, r_vars, harness, s_msg, s_rd, s_res,
                    notified, s_oob >>

\* self.notify() and the return of Ok (lines 246-247).
SendNotify(e) ==
    /\ s_pc[e] = "notify"
    /\ notified' = [notified EXCEPT ![e] = @ + 1]
    /\ s_res' = [s_res EXCEPT ![e] = "Ok"]
    /\ s_pc' = [s_pc EXCEPT ![e] = "idle"]
    /\ s_wr' = [s_wr EXCEPT ![e] = 0]
    /\ s_rd' = [s_rd EXCEPT ![e] = 0]
    /\ UNCHANGED << lens, shared, r_vars, harness, send_wr_idx, s_msg, sent, s_oob >>

(***************************************************************************)
(* Receiver::try_recv, transport.rs 109-163.                               *)
(***************************************************************************)
\* The call, with the caller's buffer msg.
RecvCall(e, out) ==
    /\ r_pc[e] = "idle"
    /\ r_out' = [r_out EXCEPT ![e] = out]
    /\ r_pc' = [r_pc EXCEPT ![e] = "load_wr"]
    /\ UNCHANGED << lens, shared, s_vars, harness, recv_rd_idx, r_wr, r_rd,
                    r_len, r_res, received, r_oob >>

\* Mutant of RecvLoadWr: rd_idx is moved past a header before the ring is
\* tested for emptiness, and the cached copy keeps the move.
RecvLoadWr_SkipFirst(e) ==
    /\ r_pc[e] = "load_wr"
    /\ IF wr_idx[Peer(e)] = recv_rd_idx[e]
       THEN /\ r_res' = [r_res EXCEPT ![e] = "Empty"]
            /\ r_pc' = [r_pc EXCEPT ![e] = "idle"]
            /\ recv_rd_idx' = [recv_rd_idx EXCEPT ![e] =
                                  SkipHeader(@, recv_buffer_len[e])]
            /\ UNCHANGED << r_wr, r_rd >>
       ELSE /\ r_wr' = [r_wr EXCEPT ![e] = wr_idx[Peer(e)]]
            /\ r_rd' = [r_rd EXCEPT ![e] = recv_rd_idx[e]]
            /\ r_pc' = [r_pc EXCEPT ![e] = "header"]
            /\ UNCHANGED << r_res, recv_rd_idx >>
    /\ UNCHANGED << lens, shared, s_vars, harness, r_out, r_len,
                    received, r_oob >>

\* The Acquire load of wr_idx, the cached rd_idx and the test for an empty
\* ring (lines 111-115).
RecvLoadWr(e) ==
    /\ r_pc[e] = "load_wr"
    /\ IF wr_idx[Peer(e)] = recv_rd_idx[e]
       THEN /\ r_res' = [r_res EXCEPT ![e] = "Empty"]
            /\ r_pc' = [r_pc EXCEPT ![e] = "idle"]
            /\ UNCHANGED << r_wr, r_rd >>
       ELSE /\ r_wr' = [r_wr EXCEPT ![e] = wr_idx[Peer(e)]]
            /\ r_rd' = [r_rd EXCEPT ![e] = recv_rd_idx[e]]
            /\ r_pc' = [r_pc EXCEPT ![e] = "header"]
            /\ UNCHANGED r_res
    /\ UNCHANGED << lens, shared, s_vars, harness, recv_rd_idx, r_out, r_len,
                    received, r_oob >>

\* Mutant of RecvReadHeader: the rd_idx past the frame is stored to shared
\* memory as soon as the length is known, before the payload is copied.
RecvReadHeader_PublishEarly(e) ==
    /\ r_pc[e] = "header"
    /\ r_oob' = [r_oob EXCEPT ![e] =
                   @ \/ Outside(r_rd[e], HeaderSize, recv_buffer_len[e])]
    /\ \E b1 \in ReadByte(ByteAt(data[Peer(e)], r_rd[e])),
          b2 \in ReadByte(ByteAt(data[Peer(e)], r_rd[e] + 1)) :
       LET msg_len == BeU16Value(<< b1, b2 >>)
           rd == SkipHeader(r_rd[e], recv_buffer_len[e])
       IN /\ r_len' = [r_len EXCEPT ![e] = msg_len]
          /\ IF msg_len > Len(r_out[e])
             THEN /\ r_res' = [r_res EXCEPT ![e] = "MessageTooBig"]
                  /\ r_pc' = [r_pc EXCEPT ![e] = "idle"]
                  /\ r_rd' = [r_rd EXCEPT ![e] = 0]
                  /\ r_wr' = [r_wr EXCEPT ![e] = 0]
                  /\ UNCHANGED rd_idx
             ELSE IF msg_len > recv_buffer_len[e]
             THEN /\ r_res' = [r_res EXCEPT ![e] = "InvalidMessage"]
                  /\ r_pc' = [r_pc EXCEPT ![e] = "idle"]
                  /\ r_rd' = [r_rd EXCEPT ![e] = 0]
                  /\ r_wr' = [r_wr EXCEPT ![e] = 0]
                  /\ UNCHANGED rd_idx
             ELSE /\ r_rd' = [r_rd EXCEPT ![e] = rd]
                  /\ r_pc' = [r_pc EXCEPT ![e] = "copy"]
                  /\ rd_idx' = [rd_idx EXCEPT ![Peer(e)] =
                                  RecvAdvance(rd, msg_len, recv_buffer_len[e])]
                  /\ UNCHANGED << r_res, r_wr >>
    /\ UNCHANGED << lens, wr_idx, data, s_vars, harness, recv_rd_idx, r_out,
                    received >>

\* Mutant of RecvReadHeader: a frame too big for the caller's buffer is
\* skipped, its rd_idx published.
RecvReadHeader_Consume(e) ==
    /\ r_pc[e] = "header"
    /\ \E b1 \in ReadByte(data[Peer(e)][r_rd[e]]),
          b2 \in ReadByte(data[Peer(e)][r_rd[e] + 1]) :
       LET msg_len == BeU16Value(<< b1, b2 >>)
           rd == SkipHeader(r_rd[e], recv_buffer_len[e])
           past == RecvAdvance(rd, msg_len, recv_buffer_len[e])
       IN /\ r_len' = [r_len EXCEPT ![e] = msg_len]
          /\ IF msg_len > Len(r_out[e])
             THEN /\ r_res' = [r_res EXCEPT ![e] = "MessageTooBig"]
                  /\ r_pc' = [r_pc EXCEPT ![e] = "idle"]
                  /\ r_rd' = [r_rd EXCEPT ![e] = 0]
                  /\ r_wr' = [r_wr EXCEPT ![e] = 0]
                  /\ recv_rd_idx' = [recv_rd_idx EXCEPT ![e] = past]
                  /\ rd_idx' = [rd_idx EXCEPT ![Peer(e)] = past]
             ELSE IF msg_len > recv_buffer_len[e]
             THEN /\ r_res' = [r_res EXCEPT ![e] = "InvalidMessage"]
                  /\ r_pc' = [r_pc EXCEPT ![e] = "idle"]
                  /\ r_rd' = [r_rd EXCEPT ![e] = 0]
                  /\ r_wr' = [r_wr EXCEPT ![e] = 0]
                  /\ UNCHANGED << recv_rd_idx, rd_idx >>
             ELSE /\ r_rd' = [r_rd EXCEPT ![e] = rd]
                  /\ r_pc' = [r_pc EXCEPT ![e] = "copy"]
                  /\ UNCHANGED << r_res, r_wr, recv_rd_idx, rd_idx >>
    /\ UNCHANGED << lens, wr_idx, data, s_vars, harness, r_out, received, r_oob >>

\* Mutant of RecvReadHeader: the length is checked against the caller's
\* buffer only.
RecvReadHeader_NoInvalid(e) ==
    /\ r_pc[e] = "header"
    /\ r_oob' = [r_oob EXCEPT ![e] =
                   @ \/ Outside(r_rd[e], HeaderSize, recv_buffer_len[e])]
    /\ \E b1 \in ReadByte(ByteAt(data[Peer(e)], r_rd[e])),
          b2 \in ReadByte(ByteAt(data[Peer(e)], r_rd[e] + 1)) :
       LET msg_len == BeU16Value(<< b1, b2 >>)
           rd == SkipHeader(r_rd[e], recv_buffer_len[e])
       IN /\ r_len' = [r_len EXCEPT ![e] = msg_len]
          /\ IF msg_len > Len(r_out[e])
             THEN /\ r_res' = [r_res EXCEPT ![e] = "MessageTooBig"]
                  /\ r_pc' = [r_pc EXCEPT ![e] = "idle"]
                  /\ r_rd' = [r_rd EXCEPT ![e] = 0]
                  /\ r_wr' = [r_wr EXCEPT ![e] = 0]
             ELSE /\ r_rd' = [r_rd EXCEPT ![e] = rd]
                  /\ r_pc' = [r_pc EXCEPT ![e] = "copy"]
                  /\ UNCHANGED << r_res, r_wr >>
    /\ UNCHANGED << lens, shared, s_vars, harness, recv_rd_idx, r_out,
                    received >>

\* Mutant of RecvReadHeader: a message as long as the caller's buffer is
\* MessageTooBig already.
RecvReadHeader_FullBuf(e) ==
    /\ r_pc[e] = "header"
    /\ r_oob' = [r_oob EXCEPT ![e] =
                   @ \/ Outside(r_rd[e], HeaderSize, recv_buffer_len[e])]
    /\ \E b1 \in ReadByte(ByteAt(data[Peer(e)], r_rd[e])),
          b2 \in ReadByte(ByteAt(data[Peer(e)], r_rd[e] + 1)) :
       LET msg_len == BeU16Value(<< b1, b2 >>)
           rd == SkipHeader(r_rd[e], recv_buffer_len[e])
       IN /\ r_len' = [r_len EXCEPT ![e] = msg_len]
          /\ IF msg_len >= Len(r_out[e])
             THEN /\ r_res' = [r_res EXCEPT ![e] = "MessageTooBig"]
                  /\ r_pc' = [r_pc EXCEPT ![e] = "idle"]
                  /\ r_rd' = [r_rd EXCEPT ![e] = 0]
                  /\ r_wr' = [r_wr EXCEPT ![e] = 0]
             ELSE IF msg_len > recv_buffer_len[e]
             THEN /\ r_res' = [r_res EXCEPT ![e] = "InvalidMessage"]
                  /\ r_pc' = [r_pc EXCEPT ![e] = "idle"]
                  /\ r_rd' = [r_rd EXCEPT ![e] = 0]
                  /\ r_wr' = [r_wr EXCEPT ![e] = 0]
             ELSE /\ r_rd' = [r_rd EXCEPT ![e] = rd]
                  /\ r_pc' = [r_pc EXCEPT ![e] = "copy"]
                  /\ UNCHANGED << r_res, r_wr >>
    /\ UNCHANGED << lens, shared, s_vars, harness, recv_rd_idx, r_out,
                    received >>

\* The header read, the first advance of rd_idx and the two length checks
\* (lines 124-136).
RecvReadHeader(e) ==
    /\ r_pc[e] = "header"
    /\ r_oob' = [r_oob EXCEPT ![e] =
                   @ \/ Outside(r_rd[e], HeaderSize, recv_buffer_len[e])]
    /\ \E b1 \in ReadByte(ByteAt(data[Peer(e)], r_rd[e])),
          b2 \in ReadByte(ByteAt(data[Peer(e)], r_rd[e] + 1)) :
       LET msg_len == BeU16Value(<< b1, b2 >>)
           rd == SkipHeader(r_rd[e], recv_buffer_len[e])
       IN /\ r_len' = [r_len EXCEPT ![e] = msg_len]
          /\ IF msg_len > Len(r_out[e])
             THEN /\ r_res' = [r_res EXCEPT ![e] = "MessageTooBig"]
                  /\ r_pc' = [r_pc EXCEPT ![e] = "idle"]
                  /\ r_rd' = [r_rd EXCEPT ![e] = 0]
                  /\ r_wr' = [r_wr EXCEPT ![e] = 0]
             ELSE IF msg_len > recv_buffer_len[e]
             THEN /\ r_res' = [r_res EXCEPT ![e] = "InvalidMessage"]
                  /\ r_pc' = [r_pc EXCEPT ![e] = "idle"]
                  /\ r_rd' = [r_rd EXCEPT ![e] = 0]
                  /\ r_wr' = [r_wr EXCEPT ![e] = 0]
             ELSE /\ r_rd' = [r_rd EXCEPT ![e] = rd]
                  /\ r_pc' = [r_pc EXCEPT ![e] = "copy"]
                  /\ UNCHANGED << r_res, r_wr >>
    /\ UNCHANGED << lens, shared, s_vars, harness, recv_rd_idx, r_out,
                    received >>

\* The payload copy into the caller's buffer: all of it, or the part up to
\* the end of the data area (lines 138-149).
RecvCopy(e) ==
    /\ r_pc[e] = "copy"
    /\ LET tail_size == recv_buffer_len[e] - r_rd[e]
       IN IF r_len[e] > tail_size
          THEN /\ r_out' = [r_out EXCEPT ![e] =
                              CopyOut(@, 0, data[Peer(e)], r_rd[e], tail_size)]
               /\ r_oob' = [r_oob EXCEPT ![e] =
                              \/ @
                              \/ Outside(r_rd[e], tail_size, recv_buffer_len[e])
                              \/ Outside(0, tail_size, Len(r_out[e]))]
               /\ r_pc' = [r_pc EXCEPT ![e] = "copy_wrap"]
          ELSE /\ r_out' = [r_out EXCEPT ![e] =
                              CopyOut(@, 0, data[Peer(e)], r_rd[e], r_len[e])]
               /\ r_oob' = [r_oob EXCEPT ![e] =
                              \/ @
                              \/ Outside(r_rd[e], r_len[e], recv_buffer_len[e])
                              \/ Outside(0, r_len[e], Len(r_out[e]))]
               /\ r_pc' = [r_pc EXCEPT ![e] = "store_rd"]
    /\ UNCHANGED << lens, shared, s_vars, harness, recv_rd_idx, r_wr, r_rd,
                    r_len, r_res, received >>

\* The second part of a payload that wraps, copied from the start of the
\* data area (line 144).
RecvCopyWrap(e) ==
    /\ r_pc[e] = "copy_wrap"
    /\ LET tail_size == recv_buffer_len[e] - r_rd[e]
       IN /\ r_out' = [r_out EXCEPT ![e] =
                         CopyOut(@, tail_size, data[Peer(e)], 0, r_len[e] - tail_size)]
          /\ r_oob' = [r_oob EXCEPT ![e] =
                         \/ @
                         \/ Outside(0, r_len[e] - tail_size, recv_buffer_len[e])
                         \/ Outside(tail_size, r_len[e] - tail_size, Len(r_out[e]))]
    /\ r_pc' = [r_pc EXCEPT ![e] = "store_rd"]
    /\ UNCHANGED << lens, shared, s_vars, harness, recv_rd_idx, r_wr, r_rd,
                    r_len, r_res, received >>

\* Mutant of RecvStoreRd: rd_idx is stored to the header of the endpoint's
\* send region.
RecvStoreRd_SendRegion(e) ==
    /\ r_pc[e] = "store_rd"
    /\ LET r == RecvAdvance(r_rd[e], r_len[e], recv_buffer_len[e])
       IN /\ recv_rd_idx' = [recv_rd_idx EXCEPT ![e] = r]
          /\ rd_idx' = [rd_idx EXCEPT ![e] = r]
    /\ received' = [received EXCEPT ![Peer(e)] =
                      Append(@, SubSeq(r_out[e], 1, r_len[e]))]
    /\ r_res' = [r_res EXCEPT ![e] = "Ok"]
    /\ r_pc' = [r_pc EXCEPT ![e] = "idle"]
    /\ r_rd' = [r_rd EXCEPT ![e] = 0]
    /\ r_wr' = [r_wr EXCEPT ![e] = 0]
    /\ UNCHANGED << lens, wr_idx, data, s_vars, harness, r_out, r_len, r_oob >>

\* The second advance of rd_idx, the cached copy, the Release store and the
\* return of Ok(msg_len) (lines 151-161).
RecvStoreRd(e) ==
    /\ r_pc[e] = "store_rd"
    /\ LET r == RecvAdvance(r_rd[e], r_len[e], recv_buffer_len[e])
       IN /\ recv_rd_idx' = [recv_rd_idx EXCEPT ![e] = r]
          /\ rd_idx' = [rd_idx EXCEPT ![Peer(e)] = r]
    /\ received' = [received EXCEPT ![Peer(e)] =
                      Append(@, SubSeq(r_out[e], 1, r_len[e]))]
    /\ r_res' = [r_res EXCEPT ![e] = "Ok"]
    /\ r_pc' = [r_pc EXCEPT ![e] = "idle"]
    /\ r_rd' = [r_rd EXCEPT ![e] = 0]
    /\ r_wr' = [r_wr EXCEPT ![e] = 0]
    /\ UNCHANGED << lens, wr_idx, data, s_vars, harness, r_out, r_len, r_oob >>

(***************************************************************************)
(* The callers.  harness names the endpoints that send and those that      *)
(* receive, and the inputs they draw: a message of a length in msgLens, at *)
(* most maxSends accepted messages for each sender, a receive buffer of    *)
(* one of the lengths outLens.  A caller with retry set sends a refused    *)
(* message again until it is accepted, as tests::test_send_recv does.      *)
(***************************************************************************)
\* A caller's buffer of c bytes, zeroed (let mut buf = [0; 8]).
Buffer(c) == [j \in 1..c |-> 0]

\* The messages the sender of e may pass to its next send.
NextMsgs(e) ==
    IF harness.retry /\ s_res[e] = "InsufficientCapacity"
    THEN {s_msg[e]}
    ELSE {Payload(Len(sent[e]) + 1, n) : n \in harness.msgLens}

\* The callers use a transport once it is bonded; a transport made by
\* IcMsgTransport::new alone, as in tests::test_send_recv, counts as bonded.
CallSend ==
    \E e \in harness.senders :
        /\ b_pc[e] = "Bonded"
        /\ Len(sent[e]) < harness.maxSends
        /\ \E m \in NextMsgs(e) : SendCall(e, m)
        /\ UNCHANGED c_vars

CallRecv ==
    \E e \in harness.receivers :
        /\ b_pc[e] = "Bonded"
        /\ a_pc[e] \in {"idle", "cancelled"}
        /\ \E c \in harness.outLens : RecvCall(e, Buffer(c))
        /\ UNCHANGED c_vars

SendStep ==
    \E e \in Endpoints :
        \/ SendLoadRd(e) /\ UNCHANGED c_vars
        \/ SendWriteHeader(e) /\ UNCHANGED c_vars
        \/ SendCopy(e) /\ UNCHANGED c_vars
        \/ SendCopyWrap(e) /\ UNCHANGED c_vars
        \/ SendStoreWr(e) /\ UNCHANGED c_vars
        \/ SendNotify(e) /\ UNCHANGED c_vars

RecvStep ==
    \E e \in Endpoints :
        \/ RecvLoadWr(e) /\ UNCHANGED c_vars
        \/ RecvReadHeader(e) /\ UNCHANGED c_vars
        \/ RecvCopy(e) /\ UNCHANGED c_vars
        \/ RecvCopyWrap(e) /\ UNCHANGED c_vars
        \/ RecvStoreRd(e) /\ UNCHANGED c_vars

Next == CallSend \/ SendStep \/ CallRecv \/ RecvStep

\* The steps of endpoint e inside send and inside try_recv.
SendOf(e) ==
    /\ \/ SendLoadRd(e) \/ SendWriteHeader(e) \/ SendCopy(e)
       \/ SendCopyWrap(e) \/ SendStoreWr(e) \/ SendNotify(e)
    /\ UNCHANGED c_vars

RecvOf(e) ==
    /\ \/ RecvLoadWr(e) \/ RecvReadHeader(e) \/ RecvCopy(e)
       \/ RecvCopyWrap(e) \/ RecvStoreRd(e)
    /\ UNCHANGED c_vars

\* No send by length is under way.
NoProbe ==
    [pc |-> "none", blen |-> 0, wr |-> 0, rd |-> 0, len |-> 0,
     res |-> "none", hdr |-> << >>, dec |-> 0]

\* IcMsgTransport::new on both endpoints (transport.rs 36-66): the indices
\* are zero and the data areas are as allocated.  start is the index both
\* rings stand at, 0 after construction, and fill the byte the data areas
\* hold.
Constructed(blen, start, fill) ==
    /\ send_buffer_len = [e \in Endpoints |-> blen]
    /\ recv_buffer_len = [e \in Endpoints |-> blen]
    /\ rd_idx = [e \in Endpoints |-> start]
    /\ wr_idx = [e \in Endpoints |-> start]
    /\ data = [e \in Endpoints |-> [i \in 0..(blen - 1) |-> fill]]
    /\ send_wr_idx = [e \in Endpoints |-> start]
    /\ recv_rd_idx = [e \in Endpoints |-> start]
    /\ s_pc = [e \in Endpoints |-> "idle"]
    /\ s_msg = [e \in Endpoints |-> << >>]
    /\ s_wr = [e \in Endpoints |-> 0]
    /\ s_rd = [e \in Endpoints |-> 0]
    /\ s_res = [e \in Endpoints |-> "none"]
    /\ r_pc = [e \in Endpoints |-> "idle"]
    /\ r_out = [e \in Endpoints |-> << >>]
    /\ r_wr = [e \in Endpoints |-> 0]
    /\ r_rd = [e \in Endpoints |-> 0]
    /\ r_len = [e \in Endpoints |-> 0]
    /\ r_res = [e \in Endpoints |-> "none"]
    /\ notified = [e \in Endpoints |-> 0]
    /\ sent = [e \in Endpoints |-> << >>]
    /\ received = [e \in Endpoints |-> << >>]
    /\ b_pc = [e \in Endpoints |-> "Bonded"]
    /\ b_err = [e \in Endpoints |-> "none"]
    /\ b_pulses = [e \in Endpoints |-> 0]
    /\ heard = [e \in Endpoints |-> 0]
    /\ a_pc = [e \in Endpoints |-> "idle"]
    /\ a_len = [e \in Endpoints |-> 0]
    /\ a_ready = [e \in Endpoints |-> FALSE]
    /\ s_oob = [e \in Endpoints |-> FALSE]
    /\ r_oob = [e \in Endpoints |-> FALSE]
    /\ turn = 1
    /\ probe = NoProbe

\* The lengths of the messages of tests::test_send_recv (0 to 8 bytes) that
\* differ in padding or in the way the frame fills the ring, and the longest
\* length.
TestMsgLens == {0, 1, 2, 4, 5, 7, 8, MaxMsgLen}

\* tests::test_send_recv (transport.rs 366-450) with the messages left open:
\* endpoint 1 sends, endpoint 2 receives, both data areas are 16 bytes.
Init ==
    /\ Constructed(TestBufLen, 0, Uninit)
    /\ harness = [senders |-> {1}, receivers |-> {2}, maxSends |-> MaxSends,
                  msgLens |-> TestMsgLens, outLens |-> {0, 4, TestOutLen},
                  retry |-> FALSE]

Spec == Init /\ [][Next]_vars

\* Data areas of the least length bonding accepts and of a few words more.
BufLens == {MinBufLen + 4 * k : k \in 0..ExtraWords}

\* One message through an empty ring that stands at any index a ring can stand
\* at after earlier traffic, the data area holding bytes of that traffic: the
\* message is of any length up to that of the data area less 4, the buffer
\* of the receiver is as long as the data area.
InitRoundTrip ==
    \E blen \in BufLens :
        /\ \E start \in {4 * w : w \in 0..((blen \div 4) - 1)} :
              \E fill \in {Uninit} \cup JunkBytes :
                  Constructed(blen, start, fill)
        /\ harness = [senders |-> {1}, receivers |-> {2}, maxSends |-> 1,
                      msgLens |-> 0..(blen - 4), outLens |-> {blen}, retry |-> FALSE]

SpecRoundTrip == InitRoundTrip /\ [][Next]_vars

\* tests::test_send_recv as it runs: the sender sends a refused message again
\* until it is accepted (transport.rs 433-443), the receiver calls try_recv
\* with its 8 byte buffer again and again (405-421), and each of the two
\* threads keeps being scheduled.  The messages are of 0, 4 and 8 bytes,
\* whose frames are the 4, 8 and 12 bytes a frame of the test can take, and
\* of the greatest length of the model.
InitRetry ==
    /\ Constructed(TestBufLen, 0, Uninit)
    /\ harness = [senders |-> {1}, receivers |-> {2}, maxSends |-> MaxSends,
                  msgLens |-> {0, 4, 8, MaxMsgLen}, outLens |-> {TestOutLen},
                  retry |-> TRUE]

SpecRetry ==
    /\ InitRetry
    /\ [][Next]_vars
    /\ WF_vars(CallSend \/ SendStep)
    /\ WF_vars(CallRecv \/ RecvStep)

(***************************************************************************)
(* Bonding: IcMsg::init, called by each core at start-up                   *)
(* (examples/embassy-zephyr-nrf5340/app-core/src/main.rs 63-80).  b_pc     *)
(* runs Uninitialised, new, new_rd, send_magic, sending, SentMagic,        *)
(* PeerAcked, recv, receiving and ends in Bonded or Failed.                *)
(***************************************************************************)
\* mbox.notify() outside send: one more notification of endpoint e.
Notify(e) == notified' = [notified EXCEPT ![e] = @ + 1]

\* The mailbox holds a signal for endpoint e.
Signalled(e) == notified[Peer(e)] > heard[e]

\* Mutant of InitCheck: the lengths are tested against 24 first, then for
\* being multiples of 4.
InitCheck_SmallFirst(e) ==
    /\ b_pc[e] = "Uninitialised"
    /\ IF send_buffer_len[e] < MinBufLen \/ recv_buffer_len[e] < MinBufLen
       THEN /\ b_pc' = [b_pc EXCEPT ![e] = "Failed"]
            /\ b_err' = [b_err EXCEPT ![e] = "TooSmall"]
       ELSE IF send_buffer_len[e] % 4 # 0 \/ recv_buffer_len[e] % 4 # 0
       THEN /\ b_pc' = [b_pc EXCEPT ![e] = "Failed"]
            /\ b_err' = [b_err EXCEPT ![e] = "InvalidSize"]
       ELSE /\ b_pc' = [b_pc EXCEPT ![e] = "new"]
            /\ UNCHANGED b_err
    /\ UNCHANGED << lens, shared, s_vars, r_vars, harness, b_pulses, heard, a_vars, turn, probe >>

\* The preconditions of init: both lengths multiples of 4, else InvalidSize,
\* and at least 24, else TooSmall.
InitCheck(e) ==
    /\ b_pc[e] = "Uninitialised"
    /\ IF send_buffer_len[e] % 4 # 0 \/ recv_buffer_len[e] % 4 # 0
       THEN /\ b_pc' = [b_pc EXCEPT ![e] = "Failed"]
            /\ b_err' = [b_err EXCEPT ![e] = "InvalidSize"]
       ELSE IF send_buffer_len[e] < MinBufLen \/ recv_buffer_len[e] < MinBufLen
       THEN /\ b_pc' = [b_pc EXCEPT ![e] = "Failed"]
            /\ b_err' = [b_err EXCEPT ![e] = "TooSmall"]
       ELSE /\ b_pc' = [b_pc EXCEPT ![e] = "new"]
            /\ UNCHANGED b_err
    /\ UNCHANGED << lens, shared, s_vars, r_vars, harness, b_pulses, heard, a_vars, turn, probe >>

\* Mutant of NewZeroWr: the wr_idx zeroed is that of the recv region.
NewZeroWr_RecvRegion(e) ==
    /\ b_pc[e] = "new"
    /\ wr_idx' = [wr_idx EXCEPT ![Peer(e)] = 0]
    /\ b_pc' = [b_pc EXCEPT ![e] = "new_rd"]
    /\ UNCHANGED << lens, rd_idx, data, s_vars, r_vars, harness, b_err,
                    b_pulses, heard, a_vars, turn, probe >>

\* IcMsgTransport::new: (*send_region).wr_idx.value.store(0) (transport.rs 50).
NewZeroWr(e) ==
    /\ b_pc[e] = "new"
    /\ wr_idx' = [wr_idx EXCEPT ![e] = 0]
    /\ b_pc' = [b_pc EXCEPT ![e] = "new_rd"]
    /\ UNCHANGED << lens, rd_idx, data, s_vars, r_vars, harness, b_err,
                    b_pulses, heard, a_vars, turn, probe >>

\* IcMsgTransport::new: (*send_region).rd_idx.value.store(0), and the Sender
\* and the Receiver with their cached indices at 0 (transport.rs 51-65).
NewZeroRd(e) ==
    /\ b_pc[e] = "new_rd"
    /\ rd_idx' = [rd_idx EXCEPT ![e] = 0]
    /\ send_wr_idx' = [send_wr_idx EXCEPT ![e] = 0]
    /\ recv_rd_idx' = [recv_rd_idx EXCEPT ![e] = 0]
    /\ b_pc' = [b_pc EXCEPT ![e] = "send_magic"]
    /\ UNCHANGED << lens, wr_idx, data, harness, s_pc, s_msg, s_wr, s_rd,
                    s_res, notified, sent, s_oob, r_pc, r_out, r_wr, r_rd,
                    r_len, r_res, received, r_oob, b_err, b_pulses, heard,
                    a_vars, turn, probe >>

\* send(MAGIC) into our ring.
InitSendMagic(e) ==
    /\ b_pc[e] = "send_magic"
    /\ SendCall(e, MAGIC)
    /\ b_pc' = [b_pc EXCEPT ![e] = "sending"]
    /\ UNCHANGED << b_err, b_pulses, heard, a_vars, turn, probe >>

\* send has returned: an error is BondingSendError (of s_res); else a wait
\* is armed on the waiter.  A signal fired before the wait was armed is lost
\* or kept.
InitArm(e) ==
    /\ b_pc[e] = "sending"
    /\ s_pc[e] = "idle"
    /\ IF s_res[e] = "Ok"
       THEN /\ b_pc' = [b_pc EXCEPT ![e] = "SentMagic"]
            /\ \E h \in {heard[e], notified[Peer(e)]} :
                  heard' = [heard EXCEPT ![e] = h]
            /\ UNCHANGED b_err
       ELSE /\ b_pc' = [b_pc EXCEPT ![e] = "Failed"]
            /\ b_err' = [b_err EXCEPT ![e] = "BondingSendError"]
            /\ UNCHANGED heard
    /\ UNCHANGED << lens, shared, s_vars, r_vars, harness, b_pulses, a_vars, turn, probe >>

\* The race of the wait against 1 ms, won by the timer: notify again, loop.
\* The loop has no end of its own.  MaxPulses of its notifications are
\* counted; a later one signals the peer as the counted ones do (it leaves
\* the mailbox holding a signal for the peer) without being counted, a
\* notification that finds the mailbox signalled being coalesced with the one
\* that signalled it.
InitPulse(e) ==
    /\ b_pc[e] = "SentMagic"
    /\ IF b_pulses[e] < MaxPulses
       THEN /\ Notify(e)
            /\ b_pulses' = [b_pulses EXCEPT ![e] = @ + 1]
            /\ UNCHANGED heard
       ELSE /\ heard' = [heard EXCEPT ![Peer(e)] =
                            IF @ >= notified[e] /\ notified[e] > 0
                            THEN notified[e] - 1 ELSE @]
            /\ UNCHANGED << notified, b_pulses >>
    /\ UNCHANGED << lens, shared, r_vars, harness, send_wr_idx, s_pc, s_msg,
                    s_wr, s_rd, s_res, sent, s_oob, b_pc, b_err,
                    a_vars, turn, probe >>

\* The race won by the wait, resolved by a signal of the peer.
InitWake(e) ==
    /\ b_pc[e] = "SentMagic"
    /\ Signalled(e)
    /\ heard' = [heard EXCEPT ![e] = notified[Peer(e)]]
    /\ b_pulses' = [b_pulses EXCEPT ![e] = 0]
    /\ b_pc' = [b_pc EXCEPT ![e] = "PeerAcked"]
    /\ UNCHANGED << lens, shared, s_vars, r_vars, harness, b_err, a_vars, turn, probe >>

\* The race won by the wait, resolved by a spurious wake-up, which the
\* contract of the waiter permits.
InitSpuriousWake(e) ==
    /\ b_pc[e] = "SentMagic"
    /\ b_pulses' = [b_pulses EXCEPT ![e] = 0]
    /\ b_pc' = [b_pc EXCEPT ![e] = "PeerAcked"]
    /\ UNCHANGED << lens, shared, s_vars, r_vars, harness, b_err, heard, a_vars, turn, probe >>

\* After the wait resolved: one more notify, so that the peer escapes its
\* own wait.
InitNotify(e) ==
    /\ b_pc[e] = "PeerAcked"
    /\ Notify(e)
    /\ b_pc' = [b_pc EXCEPT ![e] = "recv"]
    /\ UNCHANGED << lens, shared, r_vars, harness, send_wr_idx, s_pc, s_msg,
                    s_wr, s_rd, s_res, sent, s_oob, b_err, b_pulses, heard,
                    a_vars, turn, probe >>

\* try_recv into a buffer of 32 bytes.
InitRecv(e) ==
    /\ b_pc[e] = "recv"
    /\ RecvCall(e, Buffer(BondOutLen))
    /\ b_pc' = [b_pc EXCEPT ![e] = "receiving"]
    /\ UNCHANGED << b_err, b_pulses, heard, a_vars, turn, probe >>

\* Mutant of InitFinish: the whole of the received message is compared
\* with MAGIC, so that trailing bytes are BondingWrongMagic.
InitFinish_WholeMessage(e) ==
    /\ b_pc[e] = "receiving"
    /\ r_pc[e] = "idle"
    /\ IF r_res[e] # "Ok"
       THEN /\ b_pc' = [b_pc EXCEPT ![e] = "Failed"]
            /\ b_err' = [b_err EXCEPT ![e] = "BondingRecvError"]
       ELSE IF SubSeq(r_out[e], 1, r_len[e]) # MAGIC
       THEN /\ b_pc' = [b_pc EXCEPT ![e] = "Failed"]
            /\ b_err' = [b_err EXCEPT ![e] = "BondingWrongMagic"]
       ELSE /\ b_pc' = [b_pc EXCEPT ![e] = "Bonded"]
            /\ UNCHANGED b_err
    /\ UNCHANGED << lens, shared, s_vars, r_vars, harness, b_pulses, heard, a_vars, turn, probe >>

\* Mutant of InitFinish: an Empty ring sends init back to its wait.
InitFinish_Rearm(e) ==
    /\ b_pc[e] = "receiving"
    /\ r_pc[e] = "idle"
    /\ IF r_res[e] = "Empty"
       THEN /\ b_pc' = [b_pc EXCEPT ![e] = "SentMagic"]
            /\ UNCHANGED b_err
       ELSE IF r_res[e] # "Ok"
       THEN /\ b_pc' = [b_pc EXCEPT ![e] = "Failed"]
            /\ b_err' = [b_err EXCEPT ![e] = "BondingRecvError"]
       ELSE IF SubSeq(r_out[e], 1, Len(MAGIC)) # MAGIC
       THEN /\ b_pc' = [b_pc EXCEPT ![e] = "Failed"]
            /\ b_err' = [b_err EXCEPT ![e] = "BondingWrongMagic"]
       ELSE /\ b_pc' = [b_pc EXCEPT ![e] = "Bonded"]
            /\ UNCHANGED b_err
    /\ UNCHANGED << lens, shared, s_vars, r_vars, harness, b_pulses, heard, a_vars, turn, probe >>

\* try_recv has returned: a recv error is BondingRecvError (of r_res); first
\* bytes other than MAGIC are BondingWrongMagic; else bonding is complete.
InitFinish(e) ==
    /\ b_pc[e] = "receiving"
    /\ r_pc[e] = "idle"
    /\ IF r_res[e] # "Ok"
       THEN /\ b_pc' = [b_pc EXCEPT ![e] = "Failed"]
            /\ b_err' = [b_err EXCEPT ![e] = "BondingRecvError"]
       ELSE IF SubSeq(r_out[e], 1, Len(MAGIC)) # MAGIC
       THEN /\ b_pc' = [b_pc EXCEPT ![e] = "Failed"]
            /\ b_err' = [b_err EXCEPT ![e] = "BondingWrongMagic"]
       ELSE /\ b_pc' = [b_pc EXCEPT ![e] = "Bonded"]
            /\ UNCHANGED b_err
    /\ UNCHANGED << lens, shared, s_vars, r_vars, harness, b_pulses, heard, a_vars, turn, probe >>

BondStep ==
    \E e \in Endpoints :
        \/ InitCheck(e)
        \/ NewZeroWr(e)
        \/ NewZeroRd(e)
        \/ InitSendMagic(e)
        \/ InitArm(e)
        \/ InitPulse(e)
        \/ InitWake(e)
        \/ InitSpuriousWake(e)
        \/ InitNotify(e)
        \/ InitRecv(e)
        \/ InitFinish(e)

NextBond == BondStep \/ Next

\* The values the indices of a region may hold before IcMsgTransport::new
\* has zeroed them: the region is as the environment supplies it.
AsFound == {0, 4}

\* Two cores start up and call init against each other, the regions 24
\* bytes each; once bonded, endpoint 1 sends messages and both endpoints
\* call try_recv with a 32 byte buffer.
InitBond ==
    /\ send_buffer_len = [e \in Endpoints |-> MinBufLen]
    /\ recv_buffer_len = [e \in Endpoints |-> MinBufLen]
    /\ rd_idx \in [Endpoints -> AsFound]
    /\ wr_idx \in [Endpoints -> AsFound]
    /\ data = [e \in Endpoints |-> [i \in 0..(MinBufLen - 1) |-> Uninit]]
    /\ send_wr_idx = [e \in Endpoints |-> 0]
    /\ recv_rd_idx = [e \in Endpoints |-> 0]
    /\ s_pc = [e \in Endpoints |-> "idle"]
    /\ s_msg = [e \in Endpoints |-> << >>]
    /\ s_wr = [e \in Endpoints |-> 0]
    /\ s_rd = [e \in Endpoints |-> 0]
    /\ s_res = [e \in Endpoints |-> "none"]
    /\ r_pc = [e \in Endpoints |-> "idle"]
    /\ r_out = [e \in Endpoints |-> << >>]
    /\ r_wr = [e \in Endpoints |-> 0]
    /\ r_rd = [e \in Endpoints |-> 0]
    /\ r_len = [e \in Endpoints |-> 0]
    /\ r_res = [e \in Endpoints |-> "none"]
    /\ notified = [e \in Endpoints |-> 0]
    /\ sent = [e \in Endpoints |-> << >>]
    /\ received = [e \in Endpoints |-> << >>]
    /\ b_pc = [e \in Endpoints |-> "Uninitialised"]
    /\ b_err = [e \in Endpoints |-> "none"]
    /\ b_pulses = [e \in Endpoints |-> 0]
    /\ heard = [e \in Endpoints |-> 0]
    /\ a_pc = [e \in Endpoints |-> "idle"]
    /\ a_len = [e \in Endpoints |-> 0]
    /\ a_ready = [e \in Endpoints |-> FALSE]
    /\ s_oob = [e \in Endpoints |-> FALSE]
    /\ r_oob = [e \in Endpoints |-> FALSE]
    /\ turn = 1
    /\ probe = NoProbe
    /\ harness = [senders |-> {1}, receivers |-> Endpoints,
                  maxSends |-> MaxSends,
                  msgLens |-> {MaxMsgLen}, outLens |-> {BondOutLen},
                  retry |-> FALSE]

SpecBond == InitBond /\ [][NextBond]_vars

\* The same under fair scheduling: each core keeps running its init, its
\* send and its try_recv; in the race of step 3 the timer keeps firing and a
\* wait that a signal has resolved does complete.  Nothing obliges the waiter
\* to wake spuriously, nor the callers to start operations of their own.
BondFairness ==
    \A e \in Endpoints :
        /\ WF_vars(InitCheck(e) \/ NewZeroWr(e) \/ NewZeroRd(e)
                     \/ InitSendMagic(e) \/ InitArm(e) \/ InitNotify(e)
                     \/ InitRecv(e) \/ InitFinish(e))
        /\ WF_vars(InitPulse(e))
        /\ WF_vars(InitWake(e))
        /\ WF_vars(SendOf(e))
        /\ WF_vars(RecvOf(e))

SpecBondFair == InitBond /\ [][NextBond]_vars /\ BondFairness

\* Endpoint 1 comes up late: its init starts once the peer has published its
\* MAGIC.
LateBondStep ==
    \/ sent[2] # << >> /\ InitCheck(1)
    \/ InitCheck(2)
    \/ \E e \in Endpoints :
          \/ NewZeroWr(e)
          \/ NewZeroRd(e)
          \/ InitSendMagic(e)
          \/ InitArm(e)
          \/ InitPulse(e)
          \/ InitWake(e)
          \/ InitSpuriousWake(e)
          \/ InitNotify(e)
          \/ InitRecv(e)
          \/ InitFinish(e)

NextLate == LateBondStep \/ Next

SpecLate == InitBond /\ [][NextLate]_vars

(***************************************************************************)
(* init under every configuration: the lengths of the two data areas are   *)
(* those bonding accepts, or fall short of 24, or are no multiples of 4.   *)
(***************************************************************************)
\* The lengths a MemoryConfig may name for a data area.
ConfigLens == {MinBufLen - 4, MinBufLen - 2, MinBufLen, MinBufLen + 2}

\* Two cores call init against each other; the data area of region r is
\* len[r] bytes, the send region of endpoint e is region e and its recv
\* region that of its peer, and the index words are found as 0 or as 4.
\* Once bonded, endpoint 1 sends messages and both endpoints call try_recv.
InitConfig ==
    /\ \E len \in [Endpoints -> ConfigLens] :
          /\ send_buffer_len = [e \in Endpoints |-> len[e]]
          /\ recv_buffer_len = [e \in Endpoints |-> len[Peer(e)]]
          /\ data = [e \in Endpoints |-> [i \in 0..(len[e] - 1) |-> Uninit]]
    /\ \E found \in AsFound :
          /\ rd_idx = [e \in Endpoints |-> found]
          /\ wr_idx = [e \in Endpoints |-> found]
    /\ send_wr_idx = [e \in Endpoints |-> 0]
    /\ recv_rd_idx = [e \in Endpoints |-> 0]
    /\ s_pc = [e \in Endpoints |-> "idle"]
    /\ s_msg = [e \in Endpoints |-> << >>]
    /\ s_wr = [e \in Endpoints |-> 0]
    /\ s_rd = [e \in Endpoints |-> 0]
    /\ s_res = [e \in Endpoints |-> "none"]
    /\ r_pc = [e \in Endpoints |-> "idle"]
    /\ r_out = [e \in Endpoints |-> << >>]
    /\ r_wr = [e \in Endpoints |-> 0]
    /\ r_rd = [e \in Endpoints |-> 0]
    /\ r_len = [e \in Endpoints |-> 0]
    /\ r_res = [e \in Endpoints |-> "none"]
    /\ notified = [e \in Endpoints |-> 0]
    /\ sent = [e \in Endpoints |-> << >>]
    /\ received = [e \in Endpoints |-> << >>]
    /\ b_pc = [e \in Endpoints |-> "Uninitialised"]
    /\ b_err = [e \in Endpoints |-> "none"]
    /\ b_pulses = [e \in Endpoints |-> 0]
    /\ heard = [e \in Endpoints |-> 0]
    /\ a_pc = [e \in Endpoints |-> "idle"]
    /\ a_len = [e \in Endpoints |-> 0]
    /\ a_ready = [e \in Endpoints |-> FALSE]
    /\ s_oob = [e \in Endpoints |-> FALSE]
    /\ r_oob = [e \in Endpoints |-> FALSE]
    /\ turn = 1
    /\ probe = NoProbe
    /\ harness = [senders |-> {1}, receivers |-> Endpoints,
                  maxSends |-> MaxSends,
                  msgLens |-> {MaxMsgLen}, outLens |-> {BondOutLen},
                  retry |-> FALSE]

SpecConfig == InitConfig /\ [][NextBond]_vars

(***************************************************************************)
(* init against a peer of another implementation or version, whose         *)
(* bonding message is not bound to be MAGIC.                               *)
(***************************************************************************)
\* n bytes that follow MAGIC in the bonding message of a later version.
Trailing(n) == [j \in 1..n |-> 128 + j]

\* The bonding messages of the peer: MAGIC; MAGIC with 1 byte after it, with
\* as many as make 32 bytes and with one more; MAGIC short of its last byte,
\* with its last byte changed and with its first byte changed and bytes
\* after it; and the empty message.
ForeignMagics ==
    {MAGIC \o Trailing(n) : n \in {0, 1, BondOutLen - Len(MAGIC),
                                   BondOutLen - Len(MAGIC) + 1}}
        \cup {SubSeq(MAGIC, 1, Len(MAGIC) - 1),
              [MAGIC EXCEPT ![Len(MAGIC)] = 53],
              [MAGIC EXCEPT ![1] = 101] \o Trailing(3),
              << >>}

\* The length of the data area the peer sends through: the least multiple of
\* 4 whose ring takes the frame of a message one byte longer than the 32
\* byte buffer of init.
ForeignBufLen == PaddedLen(BondOutLen + 1) + HeaderSize + 4

\* send of the peer's bonding message into its ring.
ForeignSendMagic(e) ==
    /\ b_pc[e] = "send_magic"
    /\ \E m \in ForeignMagics : SendCall(e, m)
    /\ b_pc' = [b_pc EXCEPT ![e] = "sending"]
    /\ UNCHANGED << b_err, b_pulses, heard, a_vars, turn, probe >>

\* Endpoint 1 runs init; endpoint 2, the peer, does as init does but for the
\* message it sends.
ForeignBondStep ==
    \/ InitSendMagic(1)
    \/ ForeignSendMagic(2)
    \/ \E e \in Endpoints :
          \/ InitCheck(e)
          \/ NewZeroWr(e)
          \/ NewZeroRd(e)
          \/ InitArm(e)
          \/ InitPulse(e)
          \/ InitWake(e)
          \/ InitSpuriousWake(e)
          \/ InitNotify(e)
          \/ InitRecv(e)
          \/ InitFinish(e)

NextForeign == ForeignBondStep \/ Next

\* The regions are found zeroed; the data area endpoint 1 sends through is
\* 24 bytes, that of the peer ForeignBufLen.  Once bonded, endpoint 1 sends
\* messages and both endpoints call try_recv with a 32 byte buffer.
InitForeign ==
    /\ send_buffer_len = [e \in Endpoints |->
                            IF e = 1 THEN MinBufLen ELSE ForeignBufLen]
    /\ recv_buffer_len = [e \in Endpoints |->
                            IF e = 1 THEN ForeignBufLen ELSE MinBufLen]
    /\ rd_idx = [e \in Endpoints |-> 0]
    /\ wr_idx = [e \in Endpoints |-> 0]
    /\ data = [e \in Endpoints |->
                 [i \in 0..(send_buffer_len[e] - 1) |-> Uninit]]
    /\ send_wr_idx = [e \in Endpoints |-> 0]
    /\ recv_rd_idx = [e \in Endpoints |-> 0]
    /\ s_pc = [e \in Endpoints |-> "idle"]
    /\ s_msg = [e \in Endpoints |-> << >>]
    /\ s_wr = [e \in Endpoints |-> 0]
    /\ s_rd = [e \in Endpoints |-> 0]
    /\ s_res = [e \in Endpoints |-> "none"]
    /\ r_pc = [e \in Endpoints |-> "idle"]
    /\ r_out = [e \in Endpoints |-> << >>]
    /\ r_wr = [e \in Endpoints |-> 0]
    /\ r_rd = [e \in Endpoints |-> 0]
    /\ r_len = [e \in Endpoints |-> 0]
    /\ r_res = [e \in Endpoints |-> "none"]
    /\ notified = [e \in Endpoints |-> 0]
    /\ sent = [e \in Endpoints |-> << >>]
    /\ received = [e \in Endpoints |-> << >>]
    /\ b_pc = [e \in Endpoints |-> "Uninitialised"]
    /\ b_err = [e \in Endpoints |-> "none"]
    /\ b_pulses = [e \in Endpoints |-> 0]
    /\ heard = [e \in Endpoints |-> 0]
    /\ a_pc = [e \in Endpoints |-> "idle"]
    /\ a_len = [e \in Endpoints |-> 0]
    /\ a_ready = [e \in Endpoints |-> FALSE]
    /\ s_oob = [e \in Endpoints |-> FALSE]
    /\ r_oob = [e \in Endpoints |-> FALSE]
    /\ turn = 1
    /\ probe = NoProbe
    /\ harness = [senders |-> {1}, receivers |-> Endpoints,
                  maxSends |-> MaxSends,
                  msgLens |-> {MaxMsgLen}, outLens |-> {BondOutLen},
                  retry |-> FALSE]

SpecForeign == InitForeign /\ [][NextForeign]_vars

(***************************************************************************)
(* The asynchronous receive adapter: Receiver::recv, called by the task    *)
(* receive (examples/embassy-zephyr-nrf5340/app-core/src/main.rs 102-115). *)
(* a_pc runs idle, arm, poll, try, trying, await, and is cancelled once a   *)
(* recv was dropped.                                                       *)
(***************************************************************************)
\* The call, with a buffer of c bytes.  One recv is outstanding at a time,
\* and no try_recv runs beside it.
AsyncRecvCall(e, c) ==
    /\ a_pc[e] \in {"idle", "cancelled"}
    /\ r_pc[e] = "idle"
    /\ b_pc[e] = "Bonded"
    /\ a_pc' = [a_pc EXCEPT ![e] = "arm"]
    /\ a_len' = [a_len EXCEPT ![e] = c]
    /\ UNCHANGED << lens, shared, s_vars, r_vars, harness, b_vars, a_ready,
                    turn, probe >>

\* Step 1: a wait is armed.  A signal fired before is lost or kept.
AsyncRecvArm(e) ==
    /\ a_pc[e] = "arm"
    /\ \E h \in {heard[e], notified[Peer(e)]} :
          heard' = [heard EXCEPT ![e] = h]
    /\ a_pc' = [a_pc EXCEPT ![e] = "poll"]
    /\ UNCHANGED << lens, shared, s_vars, r_vars, harness, b_pc, b_err,
                    b_pulses, a_len, a_ready, turn, probe >>

\* Mutant of AsyncRecvPoll: a pending wait is awaited before the ring is
\* looked at.
AsyncRecvPoll_AwaitFirst(e) ==
    /\ a_pc[e] = "poll"
    /\ IF Signalled(e)
       THEN /\ a_ready' = [a_ready EXCEPT ![e] = TRUE]
            /\ heard' = [heard EXCEPT ![e] = notified[Peer(e)]]
            /\ a_pc' = [a_pc EXCEPT ![e] = "try"]
       ELSE /\ \E rdy \in BOOLEAN :
                  /\ a_ready' = [a_ready EXCEPT ![e] = rdy]
                  /\ a_pc' = [a_pc EXCEPT ![e] = IF rdy THEN "try" ELSE "await"]
            /\ UNCHANGED heard
    /\ UNCHANGED << lens, shared, s_vars, r_vars, harness, b_pc, b_err,
                    b_pulses, a_len, turn, probe >>

\* Step 2: the wait is polled once.  It is Ready when the mailbox holds a
\* signal, which the poll takes; it may be Ready without one.
AsyncRecvPoll(e) ==
    /\ a_pc[e] = "poll"
    /\ IF Signalled(e)
       THEN /\ a_ready' = [a_ready EXCEPT ![e] = TRUE]
            /\ heard' = [heard EXCEPT ![e] = notified[Peer(e)]]
       ELSE /\ \E rdy \in BOOLEAN : a_ready' = [a_ready EXCEPT ![e] = rdy]
            /\ UNCHANGED heard
    /\ a_pc' = [a_pc EXCEPT ![e] = "try"]
    /\ UNCHANGED << lens, shared, s_vars, r_vars, harness, b_pc, b_err,
                    b_pulses, a_len, turn, probe >>

\* Step 3: try_recv is called.
AsyncRecvTry(e) ==
    /\ a_pc[e] = "try"
    /\ RecvCall(e, Buffer(a_len[e]))
    /\ a_pc' = [a_pc EXCEPT ![e] = "trying"]
    /\ UNCHANGED << b_vars, a_len, a_ready, turn, probe >>

\* Mutant of AsyncRecvDecide: Empty is returned to the caller when the
\* armed poll was Ready.
AsyncRecvDecide_ReturnEmpty(e) ==
    /\ a_pc[e] = "trying"
    /\ r_pc[e] = "idle"
    /\ a_pc' = [a_pc EXCEPT ![e] =
                  IF r_res[e] # "Empty" \/ a_ready[e] THEN "idle" ELSE "await"]
    /\ UNCHANGED << lens, shared, s_vars, r_vars, harness, b_vars, a_len,
                    a_ready, turn, probe >>

\* Steps 3 to 6 once try_recv has returned: Ok and the errors other than
\* Empty are returned; Empty with the armed poll Ready loops; Empty with the
\* wait pending suspends.
AsyncRecvDecide(e) ==
    /\ a_pc[e] = "trying"
    /\ r_pc[e] = "idle"
    /\ a_pc' = [a_pc EXCEPT ![e] =
                  IF r_res[e] # "Empty" THEN "idle"
                  ELSE IF a_ready[e] THEN "arm" ELSE "await"]
    /\ UNCHANGED << lens, shared, s_vars, r_vars, harness, b_vars, a_len,
                    a_ready, turn, probe >>

\* Step 5: the wait resolves by a signal of the peer; loop.
AsyncRecvWake(e) ==
    /\ a_pc[e] = "await"
    /\ Signalled(e)
    /\ heard' = [heard EXCEPT ![e] = notified[Peer(e)]]
    /\ a_pc' = [a_pc EXCEPT ![e] = "arm"]
    /\ UNCHANGED << lens, shared, s_vars, r_vars, harness, b_pc, b_err,
                    b_pulses, a_len, a_ready, turn, probe >>

\* Step 5: the wait resolves by a spurious wake-up; loop.
AsyncRecvSpuriousWake(e) ==
    /\ a_pc[e] = "await"
    /\ a_pc' = [a_pc EXCEPT ![e] = "arm"]
    /\ UNCHANGED << lens, shared, s_vars, r_vars, harness, b_vars, a_len,
                    a_ready, turn, probe >>

\* The caller drops the awaitable at its suspension point.
AsyncRecvCancel(e) ==
    /\ a_pc[e] = "await"
    /\ a_pc' = [a_pc EXCEPT ![e] = "cancelled"]
    /\ UNCHANGED << lens, shared, s_vars, r_vars, harness, b_vars, a_len,
                    a_ready, turn, probe >>

\* The steps of endpoint e inside recv, the wake-ups apart.
AsyncRecvOf(e) ==
    \/ AsyncRecvArm(e)
    \/ AsyncRecvPoll(e)
    \/ AsyncRecvTry(e)
    \/ AsyncRecvDecide(e)

AsyncRecvStep ==
    \/ \E e \in harness.receivers :
          \E c \in harness.outLens : AsyncRecvCall(e, c)
    \/ \E e \in Endpoints :
          \/ AsyncRecvOf(e)
          \/ AsyncRecvWake(e)
          \/ AsyncRecvSpuriousWake(e)

\* The task receive against a sending peer: no try_recv but that of recv.
NextRecv == CallSend \/ SendStep \/ RecvStep \/ AsyncRecvStep

\* Endpoint 1 sends messages of 0 and 8 bytes over the 16 byte ring,
\* endpoint 2 awaits them with recv and a buffer of 8 bytes.
InitRecvTask ==
    /\ Constructed(TestBufLen, 0, Uninit)
    /\ harness = [senders |-> {1}, receivers |-> {2}, maxSends |-> MaxSends,
                  msgLens |-> {0, TestOutLen}, outLens |-> {TestOutLen},
                  retry |-> FALSE]

\* Cooperative scheduling: a send that was started runs to its end, and so
\* do the steps of recv; a wait that a signal has resolved completes.
\* Nothing obliges the peer to start a send, the caller to call recv, or the
\* waiter to wake spuriously.
RecvFairness ==
    \A e \in Endpoints :
        /\ WF_vars(SendOf(e))
        /\ WF_vars(RecvOf(e))
        /\ WF_vars(AsyncRecvOf(e))
        /\ WF_vars(AsyncRecvWake(e))

SpecRecv == InitRecvTask /\ [][NextRecv]_vars /\ RecvFairness

\* The same caller, which may also drop a suspended recv and call try_recv.
NextCancel ==
    \/ NextRecv
    \/ CallRecv
    \/ \E e \in Endpoints : AsyncRecvCancel(e)

SpecCancel == InitRecvTask /\ [][NextCancel]_vars

\* recv is called while the peer has sent nothing yet, or once the peer has
\* sent all its messages: what a later call finds in the ring was queued
\* before the call, and no notification follows it.
QueuedRecvCall ==
    \E e \in harness.receivers :
        /\ \A s \in harness.senders :
              /\ s_pc[s] = "idle"
              /\ Len(sent[s]) \in {0, harness.maxSends}
        /\ \E c \in harness.outLens : AsyncRecvCall(e, c)

NextQueued ==
    \/ CallSend
    \/ SendStep
    \/ RecvStep
    \/ QueuedRecvCall
    \/ \E e \in Endpoints :
          \/ AsyncRecvOf(e)
          \/ AsyncRecvWake(e)
          \/ AsyncRecvSpuriousWake(e)

\* Endpoint 1 sends messages of 0 and 8 bytes over a ring of 24 bytes that
\* stands at 0 or at 16, endpoint 2 awaits them with recv.
InitQueued ==
    /\ \E start \in {0, MinBufLen - 8} : Constructed(MinBufLen, start, Uninit)
    /\ harness = [senders |-> {1}, receivers |-> {2},
                  maxSends |-> MaxSends - 1,
                  msgLens |-> {0, TestOutLen}, outLens |-> {TestOutLen},
                  retry |-> FALSE]

SpecQueued == InitQueued /\ [][NextQueued]_vars

(***************************************************************************)
(* IcMsgTransport::split (transport.rs 81-87): the Sender and the Receiver *)
(* of endpoint 1 run as two tasks, their steps interleaved, against a      *)
(* peer that sends.                                                        *)
(***************************************************************************)
InitSplit ==
    /\ Constructed(TestBufLen, 0, Uninit)
    /\ harness = [senders |-> Endpoints, receivers |-> {1},
                  maxSends |-> MaxSends, msgLens |-> {0, TestOutLen},
                  outLens |-> {4, TestOutLen}, retry |-> FALSE]

SpecSplit == InitSplit /\ [][Next]_vars

(***************************************************************************)
(* A faulty or malicious peer.  Endpoint 1 is this implementation; in the  *)
(* place of endpoint 2 stands a peer that stores what it likes into the    *)
(* words and bytes it can write: region 1 is the send region of endpoint   *)
(* 1, region 2 its recv region.                                            *)
(***************************************************************************)
\* Values of an index word: in range, not a multiple of 4, the length of the
\* data area, far beyond it.
HostileIdx == {0, 4, 5, TestBufLen, U16}

\* Values of the length field of a header: up to, at and beyond the length
\* of the data area, and the largest a u16 holds.
HostileLens == {0, 5, TestBufLen, TestBufLen + 1, U16 - 1}

\* The peer stores v into rd_idx of region 1.
PeerStoreRd(v) ==
    /\ rd_idx' = [rd_idx EXCEPT ![1] = v]
    /\ UNCHANGED << lens, wr_idx, data, s_vars, r_vars, harness, c_vars >>

\* The peer stores v into wr_idx of region 2.
PeerStoreWr(v) ==
    /\ wr_idx' = [wr_idx EXCEPT ![2] = v]
    /\ UNCHANGED << lens, rd_idx, data, s_vars, r_vars, harness, c_vars >>

\* The peer writes a length field into the data area of region 2.  Of all
\* the places it can write to, the one try_recv reads next is taken: what
\* stands elsewhere is not read before recv_rd_idx gets there.
PeerWriteHeader(n) ==
    /\ data' = [data EXCEPT ![2] = CopyIn(@, recv_rd_idx[1], BeU16Bytes(n))]
    /\ UNCHANGED << lens, rd_idx, wr_idx, s_vars, r_vars, harness, c_vars >>

\* Endpoint 1 sends, the peer scribbles rd_idx of the send region.
NextHostileSend ==
    \/ CallSend
    \/ SendStep
    \/ \E v \in HostileIdx : PeerStoreRd(v)

\* The messages: empty, of 9 bytes, and longer than the data area.
InitHostileSend ==
    /\ Constructed(TestBufLen, 0, Uninit)
    /\ harness = [senders |-> {1}, receivers |-> {}, maxSends |-> MaxSends,
                  msgLens |-> {0, MaxMsgLen, 2 * TestBufLen - 3},
                  outLens |-> {}, retry |-> FALSE]

SpecHostileSend == InitHostileSend /\ [][NextHostileSend]_vars

\* Endpoint 1 sends one message from any index its ring can stand at, of a
\* length up to that of the data area on either side of each multiple of 4,
\* while the peer stores any value below buffer_len into rd_idx of the send
\* region.
NextFree ==
    \/ CallSend
    \/ SendStep
    \/ \E v \in 0..(TestBufLen - 1) : PeerStoreRd(v)

InitFree ==
    /\ \E start \in {4 * w : w \in 0..((TestBufLen \div 4) - 1)} :
          Constructed(TestBufLen, start, Uninit)
    /\ harness = [senders |-> {1}, receivers |-> {},
                  maxSends |-> MaxSends - 2,
                  msgLens |-> {0, 1, 4, 7, 8, 11, 12, TestBufLen},
                  outLens |-> {}, retry |-> FALSE]

SpecFree == InitFree /\ [][NextFree]_vars

\* try_recv of endpoint 1, called until harness.maxSends calls returned Ok.
HostileCallRecv ==
    \E e \in harness.receivers :
        /\ Len(received[Peer(e)]) < harness.maxSends
        /\ \E c \in harness.outLens : RecvCall(e, Buffer(c))
        /\ UNCHANGED c_vars

\* Endpoint 1 receives, the peer scribbles the recv region.
NextHostileRecv ==
    \/ HostileCallRecv
    \/ RecvStep
    \/ \E v \in HostileIdx : PeerStoreWr(v)
    \/ \E n \in HostileLens : PeerWriteHeader(n)

\* The ring stands at any index it can stand at after earlier traffic, and
\* try_recv is called until it has returned Ok once.  The caller's buffers:
\* empty, shorter than and longer than the data area.
InitHostileRecv ==
    /\ \E start \in {4 * w : w \in 0..((TestBufLen \div 4) - 1)} :
          Constructed(TestBufLen, start, Uninit)
    /\ harness = [senders |-> {}, receivers |-> {1}, maxSends |-> 1,
                  msgLens |-> {},
                  outLens |-> {0, TestOutLen, 2 * TestBufLen + 8},
                  retry |-> FALSE]

SpecHostileRecv == InitHostileRecv /\ [][NextHostileRecv]_vars

\* The peer rings the mailbox, MaxPulses times at most.
PeerNotify ==
    /\ notified[2] < MaxPulses
    /\ Notify(2)
    /\ UNCHANGED << lens, shared, r_vars, harness, send_wr_idx, s_pc, s_msg,
                    s_wr, s_rd, s_res, sent, s_oob, b_vars, a_vars, turn,
                    probe >>

\* recv of endpoint 1, called until harness.maxSends calls returned Ok.
HostileAsyncRecvCall ==
    \E e \in harness.receivers :
        /\ Len(received[Peer(e)]) < harness.maxSends
        /\ \E c \in harness.outLens : AsyncRecvCall(e, c)

\* Endpoint 1 awaits messages with recv; the peer scribbles the recv region
\* and rings the mailbox as it likes.
NextRecvHostile ==
    \/ HostileAsyncRecvCall
    \/ RecvStep
    \/ \E e \in Endpoints :
          \/ AsyncRecvOf(e)
          \/ AsyncRecvWake(e)
          \/ AsyncRecvSpuriousWake(e)
    \/ \E v \in HostileIdx : PeerStoreWr(v)
    \/ \E n \in HostileLens : PeerWriteHeader(n)
    \/ PeerNotify

\* The ring as constructed; recv is called, with a buffer of 8 or of 40
\* bytes, until it has returned Ok once.
InitRecvHostile ==
    /\ Constructed(TestBufLen, 0, Uninit)
    /\ harness = [senders |-> {}, receivers |-> {1}, maxSends |-> 1,
                  msgLens |-> {},
                  outLens |-> {TestOutLen, 2 * TestBufLen + 8},
                  retry |-> FALSE]

SpecRecvHostile == InitRecvHostile /\ [][NextRecvHostile]_vars

\* The values the peer stores into an index word that is not its own.
ScribbleIdx == {0, 4}

\* The peer stores v into wr_idx of the send region of endpoint e, the word
\* e owns, while no send of e is under way.
PeerScribbleWr(e, v) ==
    /\ s_pc[e] = "idle"
    /\ wr_idx' = [wr_idx EXCEPT ![e] = v]
    /\ UNCHANGED << lens, rd_idx, data, s_vars, r_vars, harness, c_vars >>

\* The peer stores v into rd_idx of the recv region of endpoint e, the word
\* e owns, while no try_recv of e is under way.
PeerScribbleRd(e, v) ==
    /\ r_pc[e] = "idle"
    /\ rd_idx' = [rd_idx EXCEPT ![Peer(e)] = v]
    /\ UNCHANGED << lens, wr_idx, data, s_vars, r_vars, harness, c_vars >>

\* Endpoint 1 sends and endpoint 2 receives, and between their calls the
\* index word each of them owns is overwritten.
NextScribble ==
    \/ CallSend
    \/ SendStep
    \/ HostileCallRecv
    \/ RecvStep
    \/ \E e \in harness.senders : \E v \in ScribbleIdx : PeerScribbleWr(e, v)
    \/ \E e \in harness.receivers : \E v \in ScribbleIdx : PeerScribbleRd(e, v)

InitScribble ==
    /\ Constructed(TestBufLen, 0, Uninit)
    /\ harness = [senders |-> {1}, receivers |-> {2},
                  maxSends |-> MaxSends - 1,
                  msgLens |-> {4, TestOutLen}, outLens |-> {4, TestOutLen},
                  retry |-> FALSE]

SpecScribble == InitScribble /\ [][NextScribble]_vars

(***************************************************************************)
(* The crate root, lib.rs: IcMsg, the transport before it got its cached   *)
(* indices.  IcMsg::send (63-123) differs from Sender::send in loading     *)
(* wr_idx from the send region; IcMsg::try_recv (126-176) loads rd_idx     *)
(* from the recv region, knows no InvalidMessage, and splits the caller's  *)
(* whole buffer where a payload wraps.  r_pc runs lib_load_wr,             *)
(* lib_load_rd, lib_header, lib_copy, lib_copy_wrap, lib_store_rd.         *)
(***************************************************************************)
\* IcMsg::send, the call and the Relaxed load of wr_idx (lib.rs 63-64); the
\* steps after it are those of Sender::send.
LibSendCall(e, m) ==
    /\ s_pc[e] = "idle"
    /\ s_msg' = [s_msg EXCEPT ![e] = m]
    /\ s_wr' = [s_wr EXCEPT ![e] = wr_idx[e]]
    /\ s_pc' = [s_pc EXCEPT ![e] = "load_rd"]
    /\ UNCHANGED << lens, shared, r_vars, harness, send_wr_idx, s_rd, s_res,
                    notified, sent, s_oob >>

\* IcMsg::try_recv, the call with the buffer out.
LibRecvCall(e, out) ==
    /\ r_pc[e] = "idle"
    /\ r_out' = [r_out EXCEPT ![e] = out]
    /\ r_pc' = [r_pc EXCEPT ![e] = "lib_load_wr"]
    /\ UNCHANGED << lens, shared, s_vars, harness, recv_rd_idx, r_wr, r_rd,
                    r_len, r_res, received, r_oob >>

\* The Acquire load of wr_idx (lib.rs 128).
LibRecvLoadWr(e) ==
    /\ r_pc[e] = "lib_load_wr"
    /\ r_wr' = [r_wr EXCEPT ![e] = wr_idx[Peer(e)]]
    /\ r_pc' = [r_pc EXCEPT ![e] = "lib_load_rd"]
    /\ UNCHANGED << lens, shared, s_vars, harness, recv_rd_idx, r_out, r_rd,
                    r_len, r_res, received, r_oob >>

\* The Relaxed load of rd_idx and the test for an empty ring (lib.rs
\* 129-132).
LibRecvLoadRd(e) ==
    /\ r_pc[e] = "lib_load_rd"
    /\ IF r_wr[e] = rd_idx[Peer(e)]
       THEN /\ r_res' = [r_res EXCEPT ![e] = "Empty"]
            /\ r_pc' = [r_pc EXCEPT ![e] = "idle"]
            /\ r_wr' = [r_wr EXCEPT ![e] = 0]
            /\ UNCHANGED r_rd
       ELSE /\ r_rd' = [r_rd EXCEPT ![e] = rd_idx[Peer(e)]]
            /\ r_pc' = [r_pc EXCEPT ![e] = "lib_header"]
            /\ UNCHANGED << r_res, r_wr >>
    /\ UNCHANGED << lens, shared, s_vars, harness, recv_rd_idx, r_out, r_len,
                    received, r_oob >>

\* The header read, the first advance of rd_idx and the length check
\* (lib.rs 141-150).
LibRecvReadHeader(e) ==
    /\ r_pc[e] = "lib_header"
    /\ r_oob' = [r_oob EXCEPT ![e] =
                   @ \/ Outside(r_rd[e], HeaderSize, recv_buffer_len[e])]
    /\ \E b1 \in ReadByte(ByteAt(data[Peer(e)], r_rd[e])),
          b2 \in ReadByte(ByteAt(data[Peer(e)], r_rd[e] + 1)) :
       LET msg_len == BeU16Value(<< b1, b2 >>)
       IN /\ r_len' = [r_len EXCEPT ![e] = msg_len]
          /\ IF msg_len > Len(r_out[e])
             THEN /\ r_res' = [r_res EXCEPT ![e] = "MessageTooBig"]
                  /\ r_pc' = [r_pc EXCEPT ![e] = "idle"]
                  /\ r_rd' = [r_rd EXCEPT ![e] = 0]
                  /\ r_wr' = [r_wr EXCEPT ![e] = 0]
             ELSE /\ r_rd' = [r_rd EXCEPT ![e] =
                                SkipHeader(@, recv_buffer_len[e])]
                  /\ r_pc' = [r_pc EXCEPT ![e] = "lib_copy"]
                  /\ UNCHANGED << r_res, r_wr >>
    /\ UNCHANGED << lens, shared, s_vars, harness, recv_rd_idx, r_out,
                    received >>

\* The payload copy: msg_len bytes, or, where the payload wraps, p1, the
\* first tail_size bytes of the caller's buffer (lib.rs 152-163).
LibRecvCopy(e) ==
    /\ r_pc[e] = "lib_copy"
    /\ LET tail_size == recv_buffer_len[e] - r_rd[e]
       IN IF r_len[e] > tail_size
          THEN /\ r_out' = [r_out EXCEPT ![e] =
                              CopyOut(@, 0, data[Peer(e)], r_rd[e], tail_size)]
               /\ r_oob' = [r_oob EXCEPT ![e] =
                              \/ @
                              \/ Outside(r_rd[e], tail_size, recv_buffer_len[e])
                              \/ Outside(0, tail_size, Len(r_out[e]))]
               /\ r_pc' = [r_pc EXCEPT ![e] = "lib_copy_wrap"]
          ELSE /\ r_out' = [r_out EXCEPT ![e] =
                              CopyOut(@, 0, data[Peer(e)], r_rd[e], r_len[e])]
               /\ r_oob' = [r_oob EXCEPT ![e] =
                              \/ @
                              \/ Outside(r_rd[e], r_len[e], recv_buffer_len[e])
                              \/ Outside(0, r_len[e], Len(r_out[e]))]
               /\ r_pc' = [r_pc EXCEPT ![e] = "lib_store_rd"]
    /\ UNCHANGED << lens, shared, s_vars, harness, recv_rd_idx, r_wr, r_rd,
                    r_len, r_res, received >>

\* The second part of a payload that wraps: p2 is what msg.split_at_mut
\* leaves of the caller's buffer after tail_size bytes, msg.len() - tail_size
\* bytes, and p2.len() bytes are copied from the start of the data area
\* (lib.rs 154, 158).
LibRecvCopyWrap(e) ==
    /\ r_pc[e] = "lib_copy_wrap"
    /\ LET tail_size == recv_buffer_len[e] - r_rd[e]
           p2_len == Len(r_out[e]) - tail_size
       IN /\ r_out' = [r_out EXCEPT ![e] =
                         CopyOut(@, tail_size, data[Peer(e)], 0, p2_len)]
          /\ r_oob' = [r_oob EXCEPT ![e] =
                         \/ @
                         \/ Outside(0, p2_len, recv_buffer_len[e])
                         \/ Outside(tail_size, p2_len, Len(r_out[e]))]
    /\ r_pc' = [r_pc EXCEPT ![e] = "lib_store_rd"]
    /\ UNCHANGED << lens, shared, s_vars, harness, recv_rd_idx, r_wr, r_rd,
                    r_len, r_res, received >>

\* The second advance of rd_idx, the Release store and the return of
\* Ok(msg_len) (lib.rs 165-174).
LibRecvStoreRd(e) ==
    /\ r_pc[e] = "lib_store_rd"
    /\ rd_idx' = [rd_idx EXCEPT ![Peer(e)] =
                    RecvAdvance(r_rd[e], r_len[e], recv_buffer_len[e])]
    /\ received' = [received EXCEPT ![Peer(e)] =
                      Append(@, SubSeq(r_out[e], 1, r_len[e]))]
    /\ r_res' = [r_res EXCEPT ![e] = "Ok"]
    /\ r_pc' = [r_pc EXCEPT ![e] = "idle"]
    /\ r_rd' = [r_rd EXCEPT ![e] = 0]
    /\ r_wr' = [r_wr EXCEPT ![e] = 0]
    /\ UNCHANGED << lens, wr_idx, data, s_vars, harness, recv_rd_idx, r_out,
                    r_len, r_oob >>

LibCallSend ==
    \E e \in harness.senders :
        /\ Len(sent[e]) < harness.maxSends
        /\ \E m \in NextMsgs(e) : LibSendCall(e, m)
        /\ UNCHANGED c_vars

LibCallRecv ==
    \E e \in harness.receivers :
        /\ \E c \in harness.outLens : LibRecvCall(e, Buffer(c))
        /\ UNCHANGED c_vars

LibRecvStep ==
    \E e \in Endpoints :
        \/ LibRecvLoadWr(e) /\ UNCHANGED c_vars
        \/ LibRecvLoadRd(e) /\ UNCHANGED c_vars
        \/ LibRecvReadHeader(e) /\ UNCHANGED c_vars
        \/ LibRecvCopy(e) /\ UNCHANGED c_vars
        \/ LibRecvCopyWrap(e) /\ UNCHANGED c_vars
        \/ LibRecvStoreRd(e) /\ UNCHANGED c_vars

NextLib == LibCallSend \/ SendStep \/ LibCallRecv \/ LibRecvStep

\* tests::test_send_recv of lib.rs (282-360): both regions allocated zeroed,
\* data areas of 16 bytes, messages of 4, 5 and 8 bytes; the receiver's
\* buffer is the 8 bytes of the test, or 40 bytes.
InitLib ==
    /\ Constructed(TestBufLen, 0, 0)
    /\ harness = [senders |-> {1}, receivers |-> {2},
                  maxSends |-> MaxSends - 1,
                  msgLens |-> {4, 5, TestOutLen},
                  outLens |-> {TestOutLen, 2 * TestBufLen + 8},
                  retry |-> FALSE]

SpecLib == InitLib /\ [][NextLib]_vars

(***************************************************************************)
(* Twin runs.  Endpoints 1 and 2 do not talk to each other here: each is   *)
(* one run of the same endpoint against the same peer, and region e is the *)
(* region endpoint e works on, its send region when the endpoints send     *)
(* (harness.senders is not empty) and its recv region when they receive.   *)
(* The runs go in lockstep, endpoint 1 a step, then endpoint 2 a step,     *)
(* with the same arguments, and the words the peer owns are the same in    *)
(* both.  Only the endpoint's own index word in shared memory, wr_idx of   *)
(* a send region and rd_idx of a recv region, takes any value in either    *)
(* run at any moment.                                                      *)
(***************************************************************************)
\* The region endpoint e works on in a twin run.
TwinRegion(e) == IF harness.senders # {} THEN e ELSE Peer(e)

\* The values scribbled into an own index word.
TwinIdx == {0, 4, U16}

\* A step of send in run e; run 2 is called with the message of run 1.
TwinSend(e) ==
    /\ e \in harness.senders
    /\ \/ /\ Len(sent[e]) < harness.maxSends
          /\ \E m \in (IF e = 1 THEN NextMsgs(1) ELSE {s_msg[1]}) : SendCall(e, m)
       \/ SendLoadRd(e)
       \/ SendWriteHeader(e)
       \/ SendCopy(e)
       \/ SendCopyWrap(e)
       \/ SendStoreWr(e)
       \/ SendNotify(e)

\* A step of try_recv in run e; run 2 is called with the buffer of run 1.
TwinRecv(e) ==
    /\ e \in harness.receivers
    /\ \/ /\ Len(received[Peer(e)]) < harness.maxSends
          /\ \E c \in (IF e = 1 THEN harness.outLens ELSE {Len(r_out[1])}) :
                RecvCall(e, Buffer(c))
       \/ RecvLoadWr(e)
       \/ RecvReadHeader(e)
       \/ RecvCopy(e)
       \/ RecvCopyWrap(e)
       \/ RecvStoreRd(e)

TwinStep ==
    \E e \in Endpoints :
        /\ turn = e
        /\ TwinSend(e) \/ TwinRecv(e)
        /\ turn' = Peer(e)
        /\ UNCHANGED << b_vars, a_vars, probe >>

\* The peer stores v into its index word, rd_idx of the send region or
\* wr_idx of the recv region, alike in both runs.
TwinPeerStore(v) ==
    /\ turn = 1
    /\ IF harness.senders # {}
       THEN /\ rd_idx' = [e \in Endpoints |-> v]
            /\ UNCHANGED wr_idx
       ELSE /\ wr_idx' = [e \in Endpoints |-> v]
            /\ UNCHANGED rd_idx
    /\ UNCHANGED << lens, data, s_vars, r_vars, harness, c_vars >>

\* The peer writes a length field where try_recv reads next, alike in both
\* runs.
TwinPeerHeader(n) ==
    /\ turn = 1
    /\ harness.receivers # {}
    /\ data' = [e \in Endpoints |->
                  CopyIn(data[e], recv_rd_idx[1], BeU16Bytes(n))]
    /\ UNCHANGED << lens, rd_idx, wr_idx, s_vars, r_vars, harness, c_vars >>

\* The peer scribbles the own index word of run e.
TwinScribble(e, v) ==
    /\ IF harness.senders # {}
       THEN /\ wr_idx' = [wr_idx EXCEPT ![e] = v]
            /\ UNCHANGED rd_idx
       ELSE /\ rd_idx' = [rd_idx EXCEPT ![TwinRegion(e)] = v]
            /\ UNCHANGED wr_idx
    /\ UNCHANGED << lens, data, s_vars, r_vars, harness, c_vars >>

NextTwin ==
    \/ TwinStep
    \/ \E v \in HostileIdx : TwinPeerStore(v)
    \/ \E n \in HostileLens : TwinPeerHeader(n)
    \/ \E e \in Endpoints : \E v \in TwinIdx : TwinScribble(e, v)

\* Both runs send, or both receive.  The data areas hold the same bytes in
\* both runs.
InitTwin ==
    /\ \E fill \in JunkBytes : Constructed(TestBufLen, 0, fill)
    /\ \/ harness = [senders |-> Endpoints, receivers |-> {},
                      maxSends |-> MaxSends, msgLens |-> {0, MaxMsgLen},
                      outLens |-> {}, retry |-> FALSE]
       \/ harness = [senders |-> {}, receivers |-> Endpoints, maxSends |-> 1,
                      msgLens |-> {},
                      outLens |-> {TestOutLen, 2 * TestBufLen + 8},
                      retry |-> FALSE]

SpecTwin == InitTwin /\ [][NextTwin]_vars

(***************************************************************************)
(* send and try_recv on the length of the message alone.  What send does   *)
(* with a message but for the copy of its bytes, the capacity check, the   *)
(* header and the advance of wr_idx, depends on msg.len() only, and what   *)
(* try_recv takes from the frame before the copy is the length field.      *)
(* probe follows one send of a message of probe.len bytes into a ring of   *)
(* probe.blen bytes, with send_wr_idx probe.wr and rd_idx loaded as        *)
(* probe.rd, and the header read of the try_recv that meets the frame.     *)
(***************************************************************************)
\* The lengths of the data area: that of the test, the least bonding
\* accepts, the least whose ring takes a message of 65536 bytes, and 128 KiB.
ProbeBufLens == {TestBufLen, MinBufLen, U16 + HeaderSize + 4, 2 * U16}

\* The lengths of the message, about the powers of 256.
ProbeLens == {0, 1, 255, 256, 257, U16 - 1, U16, U16 + 1, U16 + 256}

\* The call: send(msg) with msg.len() = len; let mut wr_idx =
\* self.send_wr_idx (line 189).
ProbeCall ==
    /\ probe.pc = "none"
    /\ \E blen \in ProbeBufLens, len \in ProbeLens :
          \E wr \in {0, 4, blen - 4}, rd \in {0, 4, blen - 4} :
              probe' = [probe EXCEPT !.pc = "load_rd", !.blen = blen,
                                     !.wr = wr, !.rd = rd, !.len = len]
    /\ UNCHANGED << lens, shared, s_vars, r_vars, harness, b_vars, a_vars,
                    turn >>

\* free_space and the capacity check (lines 192-202).
ProbeLoadRd ==
    /\ probe.pc = "load_rd"
    /\ LET free == FreeSpace(probe.rd, probe.wr, probe.blen)
       IN IF free < PaddedLen(probe.len) + HeaderSize
          THEN probe' = [probe EXCEPT !.pc = "done",
                                      !.res = "InsufficientCapacity"]
          ELSE probe' = [probe EXCEPT !.pc = "header"]
    /\ UNCHANGED << lens, shared, s_vars, r_vars, harness, b_vars, a_vars,
                    turn >>

\* PacketHeader::new(msg.len() as u16), the header write and the first
\* advance of wr_idx (lines 212-220).
ProbeWriteHeader ==
    /\ probe.pc = "header"
    /\ probe' = [probe EXCEPT !.pc = "store_wr",
                              !.hdr = PacketHeaderBytes(probe.len),
                              !.wr = SkipHeader(@, probe.blen)]
    /\ UNCHANGED << lens, shared, s_vars, r_vars, harness, b_vars, a_vars,
                    turn >>

\* The second advance of wr_idx and the return of Ok (lines 236-247).
ProbeStoreWr ==
    /\ probe.pc = "store_wr"
    /\ probe' = [probe EXCEPT !.pc = "published", !.res = "Ok",
                              !.wr = SendAdvance(@, probe.len, probe.blen)]
    /\ UNCHANGED << lens, shared, s_vars, r_vars, harness, b_vars, a_vars,
                    turn >>

\* try_recv: the header read and header.len.value() (lines 124-130).
ProbeReadHeader ==
    /\ probe.pc = "published"
    /\ \E b1 \in ReadByte(probe.hdr[1]), b2 \in ReadByte(probe.hdr[2]) :
          probe' = [probe EXCEPT !.pc = "done",
                                 !.dec = BeU16Value(<< b1, b2 >>)]
    /\ UNCHANGED << lens, shared, s_vars, r_vars, harness, b_vars, a_vars,
                    turn >>

NextProbe ==
    \/ ProbeCall
    \/ ProbeLoadRd
    \/ ProbeWriteHeader
    \/ ProbeStoreWr
    \/ ProbeReadHeader

SpecProbe == Init /\ [][NextProbe]_vars

(***************************************************************************)
(* What the ring of region r should hold, stated without the code's index  *)
(* arithmetic: positions are taken modulo the length of the data area.     *)
(***************************************************************************)
\* The messages of region r accepted by send and not yet returned by try_recv.
Unconsumed(r) == SubSeq(sent[r], Len(received[r]) + 1, Len(sent[r]))

\* The frame of message m stands at index at of the data area d: its length,
\* big-endian, then its bytes.
FrameAt(d, blen, at, m) ==
    /\ d[at % blen] = Len(m) \div 256
    /\ d[(at + 1) % blen] = Len(m) % 256
    /\ \A j \in 1..Len(m) : d[(at + 3 + j) % blen] = m[j]

\* The frames of the messages ms stand one after the other from index at on,
\* and the last of them ends at index to.
RECURSIVE FramesAt(_, _, _, _, _)
FramesAt(d, blen, at, to, ms) ==
    IF ms = << >>
    THEN at = to
    ELSE /\ FrameAt(d, blen, at, Head(ms))
         /\ FramesAt(d, blen, (at + FrameLen(Len(Head(ms)))) % blen, to, Tail(ms))

\* The bytes the frames of the messages ms take.
RECURSIVE FrameBytes(_)
FrameBytes(ms) ==
    IF ms = << >> THEN 0 ELSE FrameLen(Len(Head(ms))) + FrameBytes(Tail(ms))

\* The bytes of region r taken by published, unconsumed frames.
UsedBytes(r) == FrameBytes(Unconsumed(r))

\* C1: on each direction the messages returned by try_recv are, in order and
\* without loss or duplication, the first of the messages accepted by send.
C1_Fifo ==
    \A r \in Endpoints :
        /\ Len(received[r]) <= Len(sent[r])
        /\ received[r] = SubSeq(sent[r], 1, Len(received[r]))

\* Three messages went through the 16 byte ring, the last of them 8 bytes
\* long, so that the ring wrapped.
C1_Witness ==
    /\ Len(received[1]) = 3
    /\ received[1] = sent[1]
    /\ Len(received[1][3]) = 8
    /\ Len(received[1][1]) = 5

\* C2: once try_recv has seen wr_idx differ from its recv_rd_idx, the frame
\* at recv_rd_idx is whole: header and every payload byte of the oldest
\* unconsumed message are in the data area, whatever the sender is doing.
C2_NoPartialPacket ==
    \A e \in Endpoints :
        r_pc[e] \in {"header", "copy", "copy_wrap", "store_rd"} =>
            /\ Unconsumed(Peer(e)) # << >>
            /\ FrameAt(data[Peer(e)], recv_buffer_len[e], recv_rd_idx[e],
                       Head(Unconsumed(Peer(e))))

\* try_recv is about to read the header of the frame in the last four bytes
\* of the data area, whose payload starts again at index 0, while the sender
\* has written the header of the next frame and not yet its payload.
C2_Witness ==
    /\ r_pc[2] = "header"
    /\ s_pc[1] = "copy"
    /\ recv_rd_idx[2] = 12
    /\ Len(Head(Unconsumed(1))) = 4

\* C3: in every state the bytes from rd_idx forwards to wr_idx are the frames
\* of the unconsumed messages, in order.
C3_RingHoldsUnconsumed ==
    \A r \in Endpoints :
        FramesAt(data[r], send_buffer_len[r], rd_idx[r], wr_idx[r], Unconsumed(r))

\* Two frames are published and unconsumed, the first of them running over
\* the end of the data area, and try_recv is copying that frame's payload.
C3_Witness ==
    /\ Len(Unconsumed(1)) = 2
    /\ rd_idx[1] = 12
    /\ wr_idx[1] = 8
    /\ r_pc[2] = "copy"

\* C4: round trip with wrap.  Into an empty ring at any index, send accepts
\* every message whose frame is no longer than buffer_len - 1; a try_recv
\* that starts once the message is published does not return Empty; and
\* try_recv, its buffer large enough, fails in no other way and returns the
\* length and exactly the bytes of the message.
C4_RoundTrip ==
    /\ [](\A e \in Endpoints :
            /\ (s_res[e] = "InsufficientCapacity" /\ s_pc[e] = "idle") =>
                  FrameLen(Len(s_msg[e])) > send_buffer_len[e] - 1
            /\ r_res[e] \in {"none", "Empty", "Ok"}
            /\ (r_res[e] = "Ok" /\ r_pc[e] = "idle") =>
                  /\ sent[Peer(e)] # << >>
                  /\ r_len[e] = Len(sent[Peer(e)][1])
                  /\ SubSeq(r_out[e], 1, r_len[e]) = sent[Peer(e)][1]
                  /\ received[Peer(e)] = sent[Peer(e)])
    /\ [][\A e \in Endpoints :
            (r_pc[e] = "load_wr" /\ Unconsumed(Peer(e)) # << >>) =>
                r_pc'[e] # "idle"]_vars

\* A 20 byte message went through a 28 byte data area from index 20: its
\* header took the last 4 bytes but 4, its payload the last 4 and 16 more
\* from index 0.
C4_Witness ==
    /\ send_buffer_len[1] = 28
    /\ r_pc[2] = "idle"
    /\ r_res[2] = "Ok"
    /\ Len(received[1]) = 1
    /\ Len(received[1][1]) = 20
    /\ rd_idx[1] = 16

\* C5: a send that returns InsufficientCapacity has no side effect.  Its steps
\* are the call and the capacity check; a sender at the check returns only
\* InsufficientCapacity, and no step between the call and that return changes
\* send_wr_idx, the shared wr_idx, a byte of the data area or the number of
\* notifications.
C5_RefusedSendNoEffect ==
    [][\A e \in Endpoints :
          /\ (s_pc[e] = "load_rd" /\ s_pc'[e] = "idle") =>
                s_res'[e] = "InsufficientCapacity"
          /\ (s_pc[e] \in {"idle", "load_rd"} /\ s_pc'[e] \in {"idle", "load_rd"}) =>
                /\ send_wr_idx'[e] = send_wr_idx[e]
                /\ wr_idx'[e] = wr_idx[e]
                /\ data'[e] = data[e]
                /\ notified'[e] = notified[e]
                /\ sent'[e] = sent[e]]_vars

\* A send of 8 bytes was refused while the ring held two frames.
C5_Witness ==
    /\ s_pc[1] = "idle"
    /\ s_res[1] = "InsufficientCapacity"
    /\ Len(s_msg[1]) = 8
    /\ Len(Unconsumed(1)) = 2

\* C6: MessageTooBig is non-destructive.  The call that returns it leaves
\* recv_rd_idx and the shared rd_idx where they were, the frame it refused is
\* the oldest unconsumed message, longer than the buffer, and the next call
\* that returns with a buffer at least that long returns Ok with exactly that
\* message.
C6_TooBigKeepsMessage ==
    [][\A e \in Endpoints :
          /\ (r_pc[e] \in {"idle", "load_wr", "header"}
                /\ r_pc'[e] \in {"idle", "load_wr", "header"}) =>
                /\ recv_rd_idx'[e] = recv_rd_idx[e]
                /\ rd_idx'[Peer(e)] = rd_idx[Peer(e)]
          /\ (r_pc[e] # "idle" /\ r_pc'[e] = "idle"
                /\ r_res'[e] = "MessageTooBig") =>
                /\ Unconsumed(Peer(e)) # << >>
                /\ r_len'[e] = Len(Head(Unconsumed(Peer(e))))
                /\ r_len'[e] > Len(r_out[e])
                /\ received'[Peer(e)] = received[Peer(e)]
          /\ (r_res[e] = "MessageTooBig" /\ r_pc[e] # "idle" /\ r_pc'[e] = "idle") =>
                /\ Unconsumed(Peer(e)) # << >>
                /\ Len(r_out[e]) >= Len(Head(Unconsumed(Peer(e)))) =>
                      /\ r_res'[e] = "Ok"
                      /\ r_len'[e] = Len(Head(Unconsumed(Peer(e))))
                      /\ SubSeq(r_out'[e], 1, r_len'[e]) = Head(Unconsumed(Peer(e)))
                      /\ received'[Peer(e)] =
                            Append(received[Peer(e)], Head(Unconsumed(Peer(e))))]_vars

\* A 5 byte message was refused with a 4 byte buffer, and the next call, with
\* an 8 byte buffer, has copied it and is about to return.
C6_Witness ==
    /\ r_res[2] = "MessageTooBig"
    /\ r_pc[2] = "store_rd"
    /\ Len(r_out[2]) = 8
    /\ r_len[2] = 5

\* C7 as claimed: the usable capacity is buffer_len - 1 bytes, so a ring that
\* has no room even for the frame of an empty message holds frames of
\* buffer_len - 1 bytes in all.
C7_FullAtLenMinusOne ==
    [][\A e \in Endpoints :
          (s_pc[e] = "load_rd" /\ s_pc'[e] = "idle" /\ s_msg[e] = << >>) =>
              UsedBytes(e) = send_buffer_len[e] - 1]_vars

\* C7 as amended: free_space counts buffer_len - 1 bytes of an empty ring, and
\* send accepts a message exactly when its frame is no longer than
\* buffer_len - 1 less the bytes of the frames held; frames being multiples of
\* 4, as buffer_len is, the frames held never take more than buffer_len - 4
\* bytes, and when they take that much every send is refused, the send of an
\* empty message too.
C7_Capacity ==
    /\ [](\A e \in Endpoints : UsedBytes(e) <= send_buffer_len[e] - 4)
    /\ [][\A e \in Endpoints :
          /\ (s_pc[e] = "load_rd" /\ s_pc'[e] = "idle") =>
                FrameLen(Len(s_msg[e])) > send_buffer_len[e] - 1 - UsedBytes(e)
          /\ (s_pc[e] = "load_rd" /\ s_pc'[e] = "header") =>
                FrameLen(Len(s_msg[e])) <= send_buffer_len[e] - 1 - UsedBytes(e)
          /\ (s_pc[e] = "load_rd" /\ UsedBytes(e) = send_buffer_len[e] - 4) =>
                s_pc'[e] # "header"]_vars

\* The 16 byte ring holds frames of 12 bytes and has just refused an empty
\* message.
C7_Witness ==
    /\ UsedBytes(1) = 12
    /\ s_pc[1] = "idle"
    /\ s_res[1] = "InsufficientCapacity"
    /\ s_msg[1] = << >>

\* C9: InsufficientCapacity is transient.  A sender that was refused a
\* message whose frame is no longer than buffer_len - 1 and sends it again
\* until it is accepted does get it accepted, the receiver draining the ring;
\* and on the 16 byte ring a send of 8 bytes is refused while an empty message
\* sent before it is unconsumed, and accepted once that one is consumed.
C9_RefusalIsTransient ==
    /\ \A e \in Endpoints :
          (/\ s_pc[e] = "idle"
           /\ s_res[e] = "InsufficientCapacity"
           /\ FrameLen(Len(s_msg[e])) <= send_buffer_len[e] - 1)
          ~> (s_pc[e] = "idle" /\ s_res[e] = "Ok")
    /\ [][\A e \in Endpoints :
            /\ (s_res[e] = "InsufficientCapacity" /\ s_pc[e] = "idle"
                  /\ s_pc'[e] # "idle") => s_msg'[e] = s_msg[e]
            /\ (s_pc[e] = "load_rd" /\ s_pc'[e] # "load_rd"
                  /\ Len(s_msg[e]) = 8 /\ sent[e] = << << >> >>) =>
                  /\ received[e] = << >> =>
                        s_pc'[e] = "idle" /\ s_res'[e] = "InsufficientCapacity"
                  /\ received[e] = sent[e] => s_pc'[e] = "header"]_vars

\* The send of 8 bytes, refused while the empty message was in the ring, has
\* been called again after the receive and has passed the capacity check.
C9_Witness ==
    /\ s_res[1] = "InsufficientCapacity"
    /\ s_pc[1] = "header"
    /\ Len(s_msg[1]) = 8
    /\ sent[1] = << << >> >>
    /\ received[1] = sent[1]

\* C10: when two endpoints with valid configurations run init against each
\* other, neither init returns an error, and no endpoint's bonding try_recv
\* tests the ring before the peer's MAGIC frame is published.
C10_BothInitsSucceed ==
    \A e \in Endpoints :
        /\ b_pc[e] # "Failed"
        /\ (b_pc[e] = "receiving" /\ r_pc[e] = "load_wr") =>
              (sent[Peer(e)] # << >> /\ sent[Peer(e)][1] = MAGIC)

\* C11: bonding liveness.  When both endpoints run init with valid
\* configurations, under fair scheduling both eventually return success,
\* whatever the order in which they start and also when a notification fired
\* before the peer armed its wait is lost.
C11_BothEventuallyBonded ==
    <>(\A e \in Endpoints : b_pc[e] = "Bonded")

\* C12: after bonding has completed on both sides and before an application
\* message is sent, each direction has carried MAGIC exactly once: in each
\* region wr_idx and rd_idx are both 20 mod buffer_len, and a try_recv on
\* either endpoint returns Empty.
C12_MagicOnceEach ==
    /\ [](((\A e \in Endpoints : b_pc[e] = "Bonded")
             /\ (\A e \in Endpoints : Len(sent[e]) <= 1)) =>
            \A e \in Endpoints :
                /\ sent[e] = << MAGIC >>
                /\ received[e] = << MAGIC >>
                /\ wr_idx[e] = FrameLen(Len(MAGIC)) % send_buffer_len[e]
                /\ rd_idx[e] = FrameLen(Len(MAGIC)) % send_buffer_len[e])
    /\ [][((\A e \in Endpoints : b_pc[e] = "Bonded")
             /\ (\A e \in Endpoints : Len(sent[e]) <= 1)) =>
            \A e \in Endpoints :
                (r_pc[e] = "load_wr" /\ r_pc'[e] # "load_wr") =>
                    (r_pc'[e] = "idle" /\ r_res'[e] = "Empty")]_vars

\* C13: no lost wake-up.  Whenever a recv is outstanding and a message is
\* published that no try_recv has returned, that recv returns Ok, by the
\* steps of the receiver and the end of the peer's send alone.
C13_NoLostWakeup ==
    \A e \in Endpoints :
        (a_pc[e] # "idle" /\ Unconsumed(Peer(e)) # << >>)
            ~> (a_pc[e] = "idle" /\ r_res[e] = "Ok")

\* recv is suspended, its armed poll was pending and its try_recv returned
\* Empty, and the peer has since published a message and notified.
C13_Witness ==
    /\ a_pc[2] = "await"
    /\ ~a_ready[2]
    /\ Signalled(2)
    /\ Unconsumed(1) # << >>
    /\ s_pc[1] = "idle"

\* C14: cancelling recv is safe.  At the suspension point nothing is half
\* consumed: try_recv is not running, recv_rd_idx is the shared rd_idx and the
\* ring holds, from there to wr_idx, every unconsumed message.  Dropping the
\* recv, and a try_recv that returns Empty, change neither index nor the
\* ring nor what was received; a try_recv returns Empty only when no
\* unconsumed message is published, and each message returned, before or
\* after a cancellation, is the oldest one not yet returned.
C14_CancelIsSafe ==
    /\ [](\A e \in Endpoints :
            a_pc[e] \in {"await", "cancelled"} /\ r_pc[e] = "idle" =>
                /\ recv_rd_idx[e] = rd_idx[Peer(e)]
                /\ FramesAt(data[Peer(e)], recv_buffer_len[e], recv_rd_idx[e],
                            wr_idx[Peer(e)], Unconsumed(Peer(e))))
    /\ [][\A e \in Endpoints :
            /\ ((a_pc[e] = "await" /\ a_pc'[e] = "cancelled")
                  \/ (r_pc[e] = "load_wr" /\ r_pc'[e] = "idle")) =>
                    /\ recv_rd_idx'[e] = recv_rd_idx[e]
                    /\ rd_idx' = rd_idx
                    /\ wr_idx' = wr_idx
                    /\ data' = data
                    /\ received' = received
            /\ (r_pc[e] = "load_wr" /\ r_pc'[e] = "idle") =>
                    Unconsumed(Peer(e)) = << >>
            /\ (r_pc[e] = "store_rd" /\ r_pc'[e] = "idle") =>
                    received'[Peer(e)] =
                        SubSeq(sent[Peer(e)], 1, Len(received[Peer(e)]) + 1)]_vars

\* A recv was dropped while suspended, a message was published after that,
\* and a try_recv is about to return it.
C14_Witness ==
    /\ a_pc[2] = "cancelled"
    /\ r_pc[2] = "store_rd"
    /\ Len(received[1]) = 1
    /\ Len(sent[1]) = 2

\* C15: whatever the peer stores into rd_idx of the send region, send writes
\* only inside the data area of the send region.
C15_SendStaysInside == \A e \in Endpoints : ~s_oob[e]

\* C16: whatever the peer stores into wr_idx and the data area of the recv
\* region, and whatever the length of the caller's buffer, try_recv reads
\* only inside the data area and writes only inside the caller's buffer; it
\* returns Ok with a length that fits both, Empty, MessageTooBig or
\* InvalidMessage; and its indices stay indices of the data area.
C16_TryRecvSafe ==
    \A e \in Endpoints :
        /\ ~r_oob[e]
        /\ r_res[e] \in {"none", "Ok", "Empty", "MessageTooBig", "InvalidMessage"}
        /\ recv_rd_idx[e] \in 0..(recv_buffer_len[e] - 1)
        /\ recv_rd_idx[e] % 4 = 0
        /\ r_pc[e] \in {"copy", "copy_wrap", "store_rd"} =>
              /\ r_len[e] <= Len(r_out[e])
              /\ r_len[e] <= recv_buffer_len[e]
              /\ r_rd[e] \in 0..(recv_buffer_len[e] - 1)
        /\ (r_pc[e] = "idle" /\ r_res[e] = "Ok") => r_len[e] <= Len(r_out[e])

\* The peer has set wr_idx beyond the data area and written a length field
\* of 16, the length of the data area; try_recv, given a 40 byte buffer, is
\* copying the second part of the split payload.
C16_Witness ==
    /\ wr_idx[2] = U16
    /\ r_pc[1] = "copy_wrap"
    /\ r_len[1] = TestBufLen
    /\ Len(r_out[1]) = 2 * TestBufLen + 8

\* Both runs agree on f.
Same(f) == f[1] = f[2]

\* C17: two runs of send, or of try_recv, that get the same arguments and see
\* the same peer-owned words, and differ in the values of the endpoint's own
\* shared index word only, agree after every pair of steps on the local
\* state, the cached index, the results, the bytes written to the data area
\* or to the caller's buffer, the messages passed and the notifications.
C17_OwnIndexIgnored ==
    turn = 1 =>
        /\ Same(s_pc) /\ Same(s_msg) /\ Same(s_wr) /\ Same(s_rd)
        /\ Same(s_res) /\ Same(send_wr_idx) /\ Same(sent) /\ Same(notified)
        /\ Same(s_oob) /\ Same(data)
        /\ Same(r_pc) /\ Same(r_out) /\ Same(r_wr) /\ Same(r_rd)
        /\ Same(r_len) /\ Same(r_res) /\ Same(recv_rd_idx) /\ Same(r_oob)
        /\ received[2] = received[1]
        /\ harness.senders # {} => Same(rd_idx)
        /\ harness.receivers # {} => Same(wr_idx)

\* Both runs have sent a first message and are inside the send of a second
\* one, past the capacity check, while the shared wr_idx words of the two
\* runs differ and neither is the index the sender works with.
C17_Witness ==
    /\ turn = 1
    /\ s_pc[1] = "copy"
    /\ Len(sent[1]) = 1
    /\ wr_idx[1] # wr_idx[2]
    /\ wr_idx[1] # send_wr_idx[1]
    /\ wr_idx[2] # send_wr_idx[2]

\* Endpoint e is the one that takes the step: it moves inside its
\* construction and bonding, its send, its try_recv or its recv.
StepOf(e) ==
    \/ b_pc'[e] # b_pc[e]
    \/ s_pc'[e] # s_pc[e]
    \/ r_pc'[e] # r_pc[e]
    \/ a_pc'[e] # a_pc[e]
    \/ notified'[e] # notified[e]

\* C18 as claimed: in no operation, construction included, does an endpoint
\* change rd_idx of its send region or wr_idx of its recv region.
C18_IndexOwnership ==
    [][\A e \in Endpoints :
          StepOf(e) =>
              /\ rd_idx'[e] = rd_idx[e]
              /\ wr_idx'[Peer(e)] = wr_idx[Peer(e)]]_vars

\* C18 as amended: IcMsgTransport::new stores 0 to wr_idx and to rd_idx of
\* its send region; in every other step of an endpoint rd_idx of its send
\* region keeps its value, and wr_idx of its recv region keeps its value in
\* every step.  wr_idx of the send region changes in new and in send's
\* store only, rd_idx of the recv region in try_recv's store only.
C18_OwnershipAfterNew ==
    [][\A e \in Endpoints :
          StepOf(e) =>
              /\ wr_idx'[Peer(e)] = wr_idx[Peer(e)]
              /\ rd_idx'[e] # rd_idx[e] =>
                    (b_pc[e] = "new_rd" /\ rd_idx'[e] = 0)
              /\ wr_idx'[e] # wr_idx[e] =>
                    \/ b_pc[e] = "new" /\ wr_idx'[e] = 0
                    \/ s_pc[e] = "store_wr"
              /\ rd_idx'[Peer(e)] # rd_idx[Peer(e)] => r_pc[e] = "store_rd"]_vars

\* IcMsgTransport::new of endpoint 1 has stored 0 to both index words of
\* region 1, while those of region 2, its recv region, are as found.
C18_Witness ==
    /\ b_pc[1] = "send_magic"
    /\ wr_idx[1] = 0
    /\ rd_idx[1] = 0
    /\ wr_idx[2] = 4
    /\ rd_idx[2] = 4
    /\ b_pc[2] = "Uninitialised"

\* idx is an index of a data area of blen bytes, on a 4 byte boundary.
AlignedIndex(idx, blen) == idx \in 0..(blen - 1) /\ idx % 4 = 0

\* C19: between two correct endpoints the cached send_wr_idx and recv_rd_idx
\* and the shared wr_idx and rd_idx, which hold what the implementation
\* stored, are at least 0, below buffer_len and multiples of 4.
C19_IndicesInRange ==
    \A e \in Endpoints :
        /\ AlignedIndex(send_wr_idx[e], send_buffer_len[e])
        /\ AlignedIndex(wr_idx[e], send_buffer_len[e])
        /\ AlignedIndex(recv_rd_idx[e], recv_buffer_len[e])
        /\ AlignedIndex(rd_idx[Peer(e)], recv_buffer_len[e])

\* The second message, of 1 to 4 bytes, was written across the end of the
\* data area: wr_idx has wrapped to 4 and rd_idx stands at 12.
C19_Witness ==
    /\ Len(sent[1]) = 2
    /\ Len(sent[1][2]) = 1
    /\ wr_idx[1] = 4
    /\ send_wr_idx[1] = 4
    /\ rd_idx[1] = 12
    /\ recv_rd_idx[2] = 12

\* C20: the Sender and the Receiver of one endpoint are independent.  A step
\* of send changes, of the shared words, wr_idx and the data area of the send
\* region only, and nothing of the Receiver; a step of try_recv changes, of
\* the shared words, rd_idx of the recv region only, and nothing of the
\* Sender.  What send returns is settled by the send region alone, refused
\* exactly when the frame does not fit beside the frames held there, and what
\* try_recv returns by the recv region alone, Empty exactly when nothing is
\* unconsumed there and else the oldest unconsumed message or MessageTooBig:
\* whatever the other half of the endpoint does meanwhile.
C20_SplitIndependent ==
    [][\A e \in Endpoints :
          /\ s_pc'[e] # s_pc[e] =>
                /\ UNCHANGED << rd_idx, r_vars >>
                /\ wr_idx'[Peer(e)] = wr_idx[Peer(e)]
                /\ data'[Peer(e)] = data[Peer(e)]
          /\ r_pc'[e] # r_pc[e] =>
                /\ UNCHANGED << wr_idx, data, s_vars >>
                /\ rd_idx'[e] = rd_idx[e]
          /\ (s_pc[e] = "load_rd" /\ s_pc'[e] # "load_rd") =>
                ((s_pc'[e] = "idle" /\ s_res'[e] = "InsufficientCapacity")
                   <=> FrameLen(Len(s_msg[e])) >
                           send_buffer_len[e] - 1 - UsedBytes(e))
          /\ (s_pc[e] = "store_wr" /\ s_pc'[e] # "store_wr") =>
                sent'[e] = Append(sent[e], s_msg[e])
          /\ (r_pc[e] = "load_wr" /\ r_pc'[e] # "load_wr") =>
                ((r_pc'[e] = "idle" /\ r_res'[e] = "Empty")
                   <=> Unconsumed(Peer(e)) = << >>)
          /\ (r_pc[e] = "header" /\ r_pc'[e] = "idle") =>
                /\ r_res'[e] = "MessageTooBig"
                /\ Len(Head(Unconsumed(Peer(e)))) > Len(r_out[e])
          /\ (r_pc[e] = "store_rd" /\ r_pc'[e] # "store_rd") =>
                /\ r_res'[e] = "Ok"
                /\ received'[Peer(e)] =
                      Append(received[Peer(e)], Head(Unconsumed(Peer(e))))]_vars

\* Endpoint 1 is inside a send and inside a try_recv at once: its sender is
\* about to store wr_idx for its second message while its receiver is
\* copying the second part of a split payload out of the recv region.
C20_Witness ==
    /\ s_pc[1] = "store_wr"
    /\ Len(sent[1]) = 1
    /\ r_pc[1] = "copy_wrap"

\* C21: zero-length messages are legal.  A send of the empty message is
\* accepted whenever (rd_idx - wr_idx - 1) mod buffer_len is at least 4, it
\* moves send_wr_idx and the shared wr_idx on by exactly 4 modulo buffer_len
\* and returns Ok; the try_recv that meets the frame of an empty message
\* takes length 0 from it whatever the length of the caller's buffer, 0
\* included, copies nothing, returns Ok(0) and moves recv_rd_idx and the
\* shared rd_idx on by exactly 4 modulo buffer_len.
C21_EmptyMessage ==
    [][\A e \in Endpoints :
          /\ (/\ s_pc[e] = "load_rd" /\ s_pc'[e] # "load_rd"
              /\ s_msg[e] = << >>
              /\ (rd_idx[e] - s_wr[e] - 1) % send_buffer_len[e] >= 4) =>
                s_pc'[e] = "header"
          /\ (/\ s_pc[e] = "store_wr" /\ s_pc'[e] # "store_wr"
              /\ s_msg[e] = << >>) =>
                /\ wr_idx'[e] = (wr_idx[e] + 4) % send_buffer_len[e]
                /\ send_wr_idx'[e] = (send_wr_idx[e] + 4) % send_buffer_len[e]
                /\ sent'[e] = Append(sent[e], << >>)
                /\ s_pc'[e] = "notify"
          /\ (/\ s_pc[e] = "notify" /\ s_pc'[e] # "notify"
              /\ s_msg[e] = << >>) =>
                /\ s_res'[e] = "Ok"
                /\ s_pc'[e] = "idle"
          /\ (/\ r_pc[e] = "header" /\ r_pc'[e] # "header"
              /\ Unconsumed(Peer(e)) # << >>
              /\ Head(Unconsumed(Peer(e))) = << >>) =>
                /\ r_pc'[e] = "copy"
                /\ r_len'[e] = 0
          /\ (/\ r_pc[e] = "copy" /\ r_pc'[e] # "copy"
              /\ r_len[e] = 0) =>
                /\ r_pc'[e] = "store_rd"
                /\ r_out'[e] = r_out[e]
          /\ (/\ r_pc[e] = "store_rd" /\ r_pc'[e] # "store_rd"
              /\ r_len[e] = 0) =>
                /\ r_res'[e] = "Ok"
                /\ r_pc'[e] = "idle"
                /\ received'[Peer(e)] = Append(received[Peer(e)], << >>)
                /\ rd_idx'[Peer(e)] =
                       (rd_idx[Peer(e)] + 4) % recv_buffer_len[e]
                /\ recv_rd_idx'[e] =
                       (recv_rd_idx[e] + 4) % recv_buffer_len[e]]_vars

\* An empty message was sent into the last four bytes of the 16 byte data
\* area and returned by a try_recv with a buffer of length 0: both indices
\* went from 12 round to 0.
C21_Witness ==
    /\ Len(received[1]) = 2
    /\ received[1][2] = << >>
    /\ r_pc[2] = "idle"
    /\ r_res[2] = "Ok"
    /\ Len(r_out[2]) = 0
    /\ rd_idx[1] = 0
    /\ wr_idx[1] = 0
    /\ send_wr_idx[1] = 0

\* A length of endpoint e is no multiple of 4; a length is below 24.
BadSize(e) == send_buffer_len[e] % 4 # 0 \/ recv_buffer_len[e] % 4 # 0

TooShort(e) == send_buffer_len[e] < 24 \/ recv_buffer_len[e] < 24

\* C22: init fails fast on a bad configuration.  Once past its checks, init
\* has failed with InvalidSize if a length is no multiple of 4, else with
\* TooSmall if a length is below 24, and with neither of the two otherwise;
\* and an endpoint so configured never starts bonding: it sends no MAGIC,
\* notifies nobody, calls neither send nor try_recv and writes no word of
\* its regions, the index words included.
C22_InitFailsFast ==
    /\ [](\A e \in Endpoints :
            /\ (b_pc[e] # "Uninitialised" /\ BadSize(e)) =>
                  b_pc[e] = "Failed" /\ b_err[e] = "InvalidSize"
            /\ (b_pc[e] # "Uninitialised" /\ ~BadSize(e) /\ TooShort(e)) =>
                  b_pc[e] = "Failed" /\ b_err[e] = "TooSmall"
            /\ b_err[e] = "InvalidSize" => BadSize(e)
            /\ b_err[e] = "TooSmall" => ~BadSize(e) /\ TooShort(e)
            /\ (BadSize(e) \/ TooShort(e)) =>
                  /\ sent[e] = << >>
                  /\ notified[e] = 0
                  /\ s_pc[e] = "idle" /\ s_res[e] = "none"
                  /\ r_pc[e] = "idle" /\ r_res[e] = "none")
    /\ [][\A e \in Endpoints :
            (BadSize(e) \/ TooShort(e)) =>
                /\ wr_idx'[e] = wr_idx[e]
                /\ rd_idx'[Peer(e)] = rd_idx[Peer(e)]
                /\ rd_idx'[e] = rd_idx[e]
                /\ data'[e] = data[e]]_vars

\* Both inits have returned: that of endpoint 1, whose send region is 22
\* bytes and whose recv region is 20, with InvalidSize, and the index words,
\* found as 4, are as found.
C22_Witness ==
    /\ send_buffer_len[1] = 22
    /\ recv_buffer_len[1] = 20
    /\ b_pc[1] = "Failed" /\ b_err[1] = "InvalidSize"
    /\ b_pc[2] = "Failed" /\ b_err[2] = "InvalidSize"
    /\ wr_idx[1] = 4 /\ rd_idx[1] = 4
    /\ sent[1] = << >>

\* The message the last try_recv of endpoint e returned.
Returned(e) == SubSeq(r_out[e], 1, r_len[e])

\* The first 13 bytes of the message m are MAGIC.
StartsWithMagic(m) ==
    /\ Len(m) >= 13
    /\ \A j \in 1..13 : m[j] = MAGIC[j]

\* C23: when init looks at the outcome of its try_recv, it fails with
\* BondingWrongMagic exactly when try_recv returned a message whose first
\* 13 bytes are not MAGIC, and completes bonding exactly when try_recv
\* returned a message whose first 13 bytes are MAGIC, whatever bytes follow
\* them, up to the 32 bytes of the buffer.
C23_WrongMagicExactly ==
    [][\A e \in Endpoints :
          (b_pc[e] = "receiving" /\ b_pc'[e] # "receiving") =>
              /\ (b_pc'[e] = "Failed" /\ b_err'[e] = "BondingWrongMagic") <=>
                    (r_res[e] = "Ok" /\ ~StartsWithMagic(Returned(e)))
              /\ b_pc'[e] = "Bonded" <=>
                    (r_res[e] = "Ok" /\ StartsWithMagic(Returned(e)))
              /\ r_res[e] = "Ok" => Returned(e) = sent[Peer(e)][1]]_vars

\* init of endpoint 1 completed on a bonding message of 32 bytes: MAGIC and
\* 19 bytes more.
C23_Witness ==
    /\ b_pc[1] = "Bonded"
    /\ received[2] # << >>
    /\ Len(received[2][1]) = 32
    /\ received[2][1] # MAGIC
    /\ b_pc[2] = "Bonded"

\* C24: the MAGIC is consumed inside init and never delivered to the
\* application.  Once init of endpoint e has returned the transport, the one
\* message taken from its recv region is the peer's MAGIC, and every message
\* a try_recv of the application returns after that is, in order, a message
\* the application of the peer sent, the first of them the peer's first.
C24_MagicNotDelivered ==
    \A e \in Endpoints :
        b_pc[e] = "Bonded" =>
            /\ received[Peer(e)] # << >>
            /\ received[Peer(e)][1] = MAGIC
            /\ \A k \in 2..Len(received[Peer(e)]) :
                  /\ k <= Len(sent[Peer(e)])
                  /\ received[Peer(e)][k] = sent[Peer(e)][k]
                  /\ received[Peer(e)][k] # MAGIC

(***************************************************************************)
(* The layout of a region: SharedMemoryRegionHeader<ALIGN> (transport.rs   *)
(* 277-293), two #[repr(C)] structs laid out field after field, and the    *)
(* data area behind it.  harness.align is the ALIGN of the transport.      *)
(***************************************************************************)
\* The values of ALIGN.
Alignments == {4, 8, 16, 32, 64, 128, 256}

\* x rounded up to a multiple of a.
AlignUp(x, a) == ((x + a - 1) \div a) * a

\* #[repr(C)]: the offset of the k-th of the fields, each field placed at
\* the first multiple of its alignment past the field before it.
RECURSIVE FieldOffset(_, _)
FieldOffset(fields, k) ==
    IF k = 1
    THEN 0
    ELSE AlignUp(FieldOffset(fields, k - 1) + fields[k - 1].size,
                 fields[k].align)

\* #[repr(C)]: the alignment of a struct is the greatest of its fields', its
\* size the end of its last field rounded up to that alignment.
StructAlign(fields) ==
    CHOOSE a \in {fields[k].align : k \in DOMAIN fields} :
        \A k \in DOMAIN fields : fields[k].align <= a

StructSize(fields) ==
    AlignUp(FieldOffset(fields, Len(fields)) + fields[Len(fields)].size,
            StructAlign(fields))

\* Mutant of IndexFields: the alignment marker is that of a u32, whatever
\* ALIGN is.
IndexFields_NoAlign(A) ==
    << [size |-> 0, align |-> 4], [size |-> 4, align |-> 4] >>

\* struct Index<ALIGN>: _align, of no size and alignment ALIGN, and value,
\* an atomic u32.
IndexFields(A) == << [size |-> 0, align |-> A], [size |-> 4, align |-> 4] >>

\* struct SharedMemoryRegionHeader<ALIGN>: rd_idx and wr_idx, each an Index.
HeaderFields(A) ==
    LET index == [size |-> StructSize(IndexFields(A)),
                  align |-> StructAlign(IndexFields(A))]
    IN << index, index >>

\* The offset in the region of rd_idx.value and of wr_idx.value.
RdIdxOffset(A) == FieldOffset(HeaderFields(A), 1) + FieldOffset(IndexFields(A), 2)

WrIdxOffset(A) == FieldOffset(HeaderFields(A), 2) + FieldOffset(IndexFields(A), 2)

\* data_ptr: region.cast::<u8>().add(size_of::<SharedMemoryRegionHeader>()).
DataOffset(A) == StructSize(HeaderFields(A))

\* LeAtomicU32: the four bytes of a u32 in memory, least significant first.
LeU32Bytes(v) ==
    << v % 256, (v \div 256) % 256, (v \div 65536) % 256,
       (v \div 16777216) % 256 >>

\* The byte at offset off of region r: of an index word, of the data area,
\* or of padding.
RegionByte(r, A, off) ==
    IF off >= RdIdxOffset(A) /\ off < RdIdxOffset(A) + 4
    THEN LeU32Bytes(rd_idx[r])[off - RdIdxOffset(A) + 1]
    ELSE IF off >= WrIdxOffset(A) /\ off < WrIdxOffset(A) + 4
    THEN LeU32Bytes(wr_idx[r])[off - WrIdxOffset(A) + 1]
    ELSE IF off >= DataOffset(A) /\ off < DataOffset(A) + send_buffer_len[r]
    THEN data[r][off - DataOffset(A)]
    ELSE Uninit

\* tests::test_send_recv with a transport of any ALIGN: messages of 4 and of
\* 8 bytes through the 16 byte ring.
InitLayout ==
    /\ Constructed(TestBufLen, 0, Uninit)
    /\ \E A \in Alignments :
          harness = [senders |-> {1}, receivers |-> {2},
                     maxSends |-> MaxSends - 1,
                     msgLens |-> {4, TestOutLen}, outLens |-> {TestOutLen},
                     retry |-> FALSE, align |-> A]

SpecLayout == InitLayout /\ [][Next]_vars

\* C25: header placement.  For every ALIGN of 4, 8, 16, 32, 64, 128 and 256,
\* rd_idx is at offset 0 of the region, wr_idx at offset ALIGN and the data
\* area at offset 2 * ALIGN: in every state the four bytes at offset 0 are
\* rd_idx, least significant byte first, those at offset ALIGN are wr_idx,
\* the bytes from offset 2 * ALIGN on are the data area, and the length field
\* of the oldest unconsumed frame stands at offset 2 * ALIGN + rd_idx.
C25_HeaderPlacement ==
    LET A == harness.align
    IN /\ RdIdxOffset(A) = 0
       /\ WrIdxOffset(A) = A
       /\ DataOffset(A) = 2 * A
       /\ \A r \in Endpoints :
             /\ << RegionByte(r, A, 0), RegionByte(r, A, 1),
                   RegionByte(r, A, 2), RegionByte(r, A, 3) >>
                    = << rd_idx[r], 0, 0, 0 >>
             /\ << RegionByte(r, A, A), RegionByte(r, A, A + 1),
                   RegionByte(r, A, A + 2), RegionByte(r, A, A + 3) >>
                    = << wr_idx[r], 0, 0, 0 >>
             /\ \A i \in 0..(send_buffer_len[r] - 1) :
                   RegionByte(r, A, 2 * A + i) = data[r][i]
             /\ Unconsumed(r) # << >> =>
                   /\ RegionByte(r, A, 2 * A + rd_idx[r]) =
                          Len(Head(Unconsumed(r))) \div 256
                   /\ RegionByte(r, A, 2 * A + rd_idx[r] + 1) =
                          Len(Head(Unconsumed(r))) % 256

\* ALIGN is 8 and the ring holds an 8 byte message whose frame begins at
\* offset 2 * 8 + 8 of the region and wraps.
C25_Witness ==
    /\ harness.align = 8
    /\ rd_idx[1] = 8
    /\ wr_idx[1] = 4
    /\ Len(Unconsumed(1)) = 1
    /\ RegionByte(1, 8, 24 + 1) = 8

\* C26: the length field is the big-endian encoding of the length of the
\* message and try_recv decodes that length.  For every message send has
\* accepted, the first byte of the header written is the length divided by
\* 256 and the second the length modulo 256, and the length try_recv takes
\* from that header is the length of the message.
C26_LengthNotTruncated ==
    /\ probe.pc \in {"store_wr", "published", "done"} /\ probe.res # "InsufficientCapacity" =>
          /\ probe.hdr[1] = probe.len \div 256
          /\ probe.hdr[2] = probe.len % 256
    /\ probe.pc = "done" /\ probe.res = "Ok" => probe.dec = probe.len

\* C27: the free space send computes, from its cached send_wr_idx and the
\* rd_idx it loads, both below buffer_len, is (rd - wr - 1) mod buffer_len,
\* and send goes on to write the frame, and returns Ok, exactly when
\* L + ((4 - L mod 4) mod 4) + 4 is at most that; else it returns
\* InsufficientCapacity.
C27_FreeSpaceFormula ==
    /\ [](\A e \in Endpoints :
            \A wr, rd \in 0..(send_buffer_len[e] - 1) :
                FreeSpace(rd, wr, send_buffer_len[e]) =
                    (rd - wr - 1) % send_buffer_len[e])
    /\ [][\A e \in Endpoints :
            /\ (s_pc[e] = "load_rd" /\ s_pc'[e] # "load_rd") =>
                  LET free == (rd_idx[e] - send_wr_idx[e] - 1) % send_buffer_len[e]
                      L == Len(s_msg[e])
                      fits == L + ((4 - (L % 4)) % 4) + 4 <= free
                  IN /\ s_wr[e] = send_wr_idx[e]
                     /\ s_pc'[e] = "header" <=> fits
                     /\ (s_pc'[e] = "idle" /\ s_res'[e] = "InsufficientCapacity")
                            <=> ~fits
            /\ (s_pc[e] \in {"header", "copy", "copy_wrap", "store_wr"}
                  /\ s_pc'[e] # s_pc[e]) =>
                  s_pc'[e] \in {"copy", "copy_wrap", "store_wr", "notify"}
            /\ (s_pc[e] = "notify" /\ s_pc'[e] # "notify") =>
                  s_pc'[e] = "idle" /\ s_res'[e] = "Ok"]_vars

\* send accepted an 8 byte message with send_wr_idx 8 and rd_idx loaded as
\* 5: 12 bytes are free and the frame takes 12.
C27_Witness ==
    /\ s_pc[1] = "header"
    /\ send_wr_idx[1] = 8
    /\ s_rd[1] = 5
    /\ Len(s_msg[1]) = 8

\* C28: a successful send fires the notifier exactly once, and only after
\* the new wr_idx is in shared memory.  The notifications of an endpoint
\* are as many as the sends that returned Ok; when the notifier fires, the
\* shared wr_idx is already the index past the frame of the message; and a
\* try_recv of the peer that loads wr_idx while a message whose notification
\* has fired is not yet consumed does not return Empty.
C28_NotifyAfterPublish ==
    /\ [](\A e \in Endpoints :
            notified[e] + (IF s_pc[e] = "notify" THEN 1 ELSE 0) = Len(sent[e]))
    /\ [][\A e \in Endpoints :
            /\ notified'[e] # notified[e] =>
                  /\ notified'[e] = notified[e] + 1
                  /\ s_pc[e] = "notify" /\ s_pc'[e] = "idle" /\ s_res'[e] = "Ok"
                  /\ wr_idx[e] = send_wr_idx[e]
                  /\ wr_idx'[e] = wr_idx[e]
                  /\ FramesAt(data[e], send_buffer_len[e], rd_idx[e],
                              wr_idx[e], Unconsumed(e))
                  /\ Unconsumed(e) # << >> =>
                        Unconsumed(e)[Len(Unconsumed(e))] = s_msg[e]
            /\ (/\ r_pc[e] = "load_wr" /\ r_pc'[e] # "load_wr"
                /\ Len(received[Peer(e)]) < notified[Peer(e)]) =>
                  r_pc'[e] = "header"]_vars

\* Two sends have returned and fired their notifications, one message is
\* consumed, and a try_recv called after the second notification has found
\* the ring not empty.
C28_Witness ==
    /\ notified[1] = 2
    /\ s_pc[1] = "idle"
    /\ Len(received[1]) = 1
    /\ r_pc[2] = "header"

\* C29: try_recv returns Empty exactly when the wr_idx it loads from the
\* recv region equals the cached recv_rd_idx.  Empty is returned by the step
\* that loads wr_idx, the first after the call, and by no other; and from
\* the call to that return no step reads the header or the payload of a
\* frame (msg_len and the out-of-bounds record are as before), and
\* recv_rd_idx, the shared rd_idx and the caller's buffer are unchanged.
C29_EmptyExactly ==
    [][\A e \in Endpoints :
          /\ (r_pc[e] = "load_wr" /\ r_pc'[e] # "load_wr") =>
                /\ (r_pc'[e] = "idle" /\ r_res'[e] = "Empty") <=>
                       (wr_idx[Peer(e)] = recv_rd_idx[e])
                /\ r_pc'[e] = "header" <=> (wr_idx[Peer(e)] # recv_rd_idx[e])
                /\ r_pc'[e] = "header" => r_wr'[e] = wr_idx[Peer(e)]
          /\ (r_pc[e] \notin {"idle", "load_wr"} /\ r_pc'[e] = "idle") =>
                r_res'[e] # "Empty"
          /\ (r_pc[e] = "idle" /\ r_pc'[e] # "idle") =>
                /\ r_pc'[e] = "load_wr"
                /\ r_out'[e] = Buffer(Len(r_out'[e]))
                /\ recv_rd_idx'[e] = recv_rd_idx[e]
                /\ rd_idx'[Peer(e)] = rd_idx[Peer(e)]
          /\ (r_pc[e] = "load_wr" /\ r_pc'[e] = "idle") =>
                /\ recv_rd_idx'[e] = recv_rd_idx[e]
                /\ rd_idx' = rd_idx
                /\ data' = data
                /\ r_out'[e] = r_out[e]
                /\ r_len'[e] = r_len[e]
                /\ r_oob'[e] = r_oob[e]
                /\ received' = received]_vars

\* try_recv returned Empty with the ring standing at index 4; the peer had
\* set wr_idx beyond the data area before, which was not taken for empty.
C29_Witness ==
    /\ r_pc[1] = "idle"
    /\ r_res[1] = "Empty"
    /\ recv_rd_idx[1] = 4
    /\ wr_idx[2] = 4
    /\ Len(r_out[1]) = TestOutLen

\* C30: the cached own index is re-published after each operation.  When a
\* send returns, with Ok or with an error, the shared wr_idx of the send
\* region equals send_wr_idx, and when a try_recv returns, with Ok or with
\* an error, the shared rd_idx of the recv region equals recv_rd_idx, also
\* where the word was overwritten before the call.
C30_Republished ==
    [][\A e \in Endpoints :
          /\ (s_pc[e] # "idle" /\ s_pc'[e] = "idle") =>
                wr_idx'[e] = send_wr_idx'[e]
          /\ (r_pc[e] # "idle" /\ r_pc'[e] = "idle") =>
                rd_idx'[Peer(e)] = recv_rd_idx'[e]]_vars

\* C31: InvalidMessage is permanent.  try_recv returns InvalidMessage when
\* the length field of the frame header exceeds recv_buffer_len (and fits the
\* caller's buffer, which is tested first), it leaves recv_rd_idx and the
\* shared rd_idx as they were, and the try_recv that follows an
\* InvalidMessage does not return Ok.
C31_InvalidMessagePermanent ==
    [][\A e \in Endpoints :
          /\ (r_pc[e] = "header" /\ r_pc'[e] = "idle"
                /\ r_res'[e] = "InvalidMessage") =>
                /\ r_len'[e] > recv_buffer_len[e]
                /\ recv_rd_idx' = recv_rd_idx
                /\ rd_idx' = rd_idx
          /\ (r_pc[e] = "header" /\ r_pc'[e] # "header"
                /\ r_len'[e] > recv_buffer_len[e]
                /\ r_len'[e] <= Len(r_out[e])) =>
                (r_pc'[e] = "idle" /\ r_res'[e] = "InvalidMessage")
          /\ r_res[e] = "InvalidMessage" => r_res'[e] # "Ok"]_vars

\* The frame of the message endpoint e is sending, or sent last, takes more
\* than send_buffer_len - 1 bytes.
Oversize(e) == FrameLen(Len(s_msg[e])) > send_buffer_len[e] - 1

\* C32: a message whose frame exceeds buffer_len - 1 bytes is refused in
\* every ring state, however often it is sent again and whatever the receiver
\* has consumed.  send gets no further than the capacity check with it, that
\* check returns InsufficientCapacity and changes nothing in the ring, the
\* indices, the notifications or the messages sent; no such message is among
\* those sent, and what is received are whole messages as they were sent.
C32_OversizeRefused ==
    /\ [](\A e \in Endpoints :
            /\ Oversize(e) => s_pc[e] \in {"idle", "load_rd"}
            /\ \A k \in 1..Len(sent[e]) :
                  FrameLen(Len(sent[e][k])) <= send_buffer_len[e] - 1
            /\ Len(received[e]) <= Len(sent[e])
            /\ \A k \in 1..Len(received[e]) : received[e][k] = sent[e][k])
    /\ [][\A e \in Endpoints :
            (s_pc[e] = "load_rd" /\ s_pc'[e] # "load_rd" /\ Oversize(e)) =>
                /\ s_pc'[e] = "idle"
                /\ s_res'[e] = "InsufficientCapacity"
                /\ data' = data
                /\ wr_idx' = wr_idx
                /\ send_wr_idx' = send_wr_idx
                /\ sent' = sent
                /\ notified' = notified]_vars

\* The message of MaxMsgLen bytes was refused again after two messages went
\* through the ring and were consumed: the ring is empty and still too short.
C32_Witness ==
    /\ s_pc[1] = "idle"
    /\ s_res[1] = "InsufficientCapacity"
    /\ Len(s_msg[1]) = MaxMsgLen
    /\ Len(received[1]) = MaxSends - 1
    /\ wr_idx[1] = rd_idx[1]

\* C33: the bonding send of MAGIC always succeeds.  Once the size
\* preconditions have passed and new has run, send(MAGIC) returns Ok and
\* leaves wr_idx at the 20 bytes of its frame modulo send_buffer_len, and no
\* endpoint fails with BondingSendError.
C33_BondingSendSucceeds ==
    \A e \in Endpoints :
        /\ b_err[e] # "BondingSendError"
        /\ (b_pc[e] = "sending" /\ s_pc[e] = "idle") =>
              /\ s_res[e] = "Ok"
              /\ send_wr_idx[e] = FrameLen(Len(MAGIC)) % send_buffer_len[e]
              /\ wr_idx[e] = send_wr_idx[e]

\* The bonding state of section 4.2 that init is in at the position pc:
\* Uninitialised up to the return of send(MAGIC), SentMagic while it waits,
\* PeerAcked from the resolved wait to the outcome of try_recv.
BondState(pc) ==
    CASE pc \in {"Uninitialised", "new", "new_rd", "send_magic", "sending"} ->
             "Uninitialised"
      [] pc = "SentMagic" -> "SentMagic"
      [] pc \in {"PeerAcked", "recv", "receiving"} -> "PeerAcked"
      [] pc = "Bonded" -> "Bonded"
      [] pc = "Failed" -> "Failed"

\* C34: the bonding state moves forward only, along Uninitialised,
\* SentMagic, PeerAcked, Bonded, or from one of the first three to Failed;
\* Bonded and Failed are left by no step.  An endpoint waits, and is past
\* its wait, only with its own MAGIC published by a send that returned Ok;
\* PeerAcked is entered from the wait alone; and an endpoint is Bonded only
\* with a first received message that starts with MAGIC.
C34_BondingForward ==
    /\ [][\A e \in Endpoints :
            b_pc'[e] # b_pc[e] =>
                LET a == BondState(b_pc[e])
                    b == BondState(b_pc'[e])
                IN /\ a \notin {"Bonded", "Failed"}
                   /\ \/ a = b
                      \/ b = "Failed"
                      \/ << a, b >> \in {<< "Uninitialised", "SentMagic" >>,
                                         << "SentMagic", "PeerAcked" >>,
                                         << "PeerAcked", "Bonded" >>}]_vars
    /\ [](\A e \in Endpoints :
            /\ BondState(b_pc[e]) \in {"SentMagic", "PeerAcked", "Bonded"} =>
                  /\ sent[e] # << >>
                  /\ sent[e][1] = MAGIC
                  /\ notified[e] >= 1
            /\ b_pc[e] = "SentMagic" => s_res[e] = "Ok" /\ s_pc[e] = "idle"
            /\ b_pc[e] = "Bonded" =>
                  /\ received[Peer(e)] # << >>
                  /\ StartsWithMagic(received[Peer(e)][1])
            /\ b_pc[e] = "Failed" <=> b_err[e] # "none")

\* Endpoint 1 is bonded and endpoint 2, which took a spurious wake-up for
\* the signal of its peer, has failed after its wait.
C34_Witness ==
    /\ b_pc[1] = "Bonded"
    /\ b_pc[2] = "Failed"
    /\ b_err[2] = "BondingRecvError"
    /\ sent[2] = << MAGIC >>

\* C35: recv never returns Empty to its caller.  recv returns from the
\* outcome of its try_recv alone, and exactly when that outcome is not Empty:
\* Ok, MessageTooBig or InvalidMessage, which it passes on with the buffer as
\* try_recv left them.  On Empty it arms a new wait when the armed poll was
\* Ready and suspends otherwise; a wait that resolves, by a signal or
\* spuriously, leads to a new wait being armed, and each armed wait to a poll
\* and a try_recv.
C35_RecvNeverEmpty ==
    /\ [](\A e \in harness.receivers :
            a_pc[e] = "idle" =>
                r_res[e] \in {"none", "Ok", "MessageTooBig", "InvalidMessage"})
    /\ [][\A e \in harness.receivers :
            /\ (a_pc[e] # "idle" /\ a_pc'[e] = "idle") =>
                  /\ a_pc[e] = "trying"
                  /\ r_pc[e] = "idle"
                  /\ r_res[e] \in {"Ok", "MessageTooBig", "InvalidMessage"}
                  /\ r_res'[e] = r_res[e]
                  /\ r_len'[e] = r_len[e]
                  /\ r_out'[e] = r_out[e]
            /\ (a_pc[e] = "trying" /\ a_pc'[e] # "trying") =>
                  /\ r_res[e] # "Empty" => a_pc'[e] = "idle"
                  /\ (r_res[e] = "Empty" /\ a_ready[e]) => a_pc'[e] = "arm"
                  /\ (r_res[e] = "Empty" /\ ~a_ready[e]) => a_pc'[e] = "await"
            /\ (a_pc[e] = "await" /\ a_pc'[e] # "await") => a_pc'[e] = "arm"
            /\ (a_pc[e] = "arm" /\ a_pc'[e] # "arm") => a_pc'[e] = "poll"
            /\ (a_pc[e] = "poll" /\ a_pc'[e] # "poll") => a_pc'[e] = "try"
            /\ (a_pc[e] = "try" /\ a_pc'[e] # "try") =>
                  a_pc'[e] = "trying" /\ r_pc'[e] = "load_wr"]_vars

\* recv found the ring empty after a poll that was Ready though the mailbox
\* held no signal, and has armed a new wait instead of returning.
C35_Witness ==
    /\ a_pc[1] = "arm"
    /\ r_res[1] = "Empty"
    /\ a_ready[1]
    /\ notified[2] = 0
    /\ wr_idx[2] = recv_rd_idx[1]

\* C36: recv suspends only when its try_recv returned Empty and the armed
\* wait is still pending.  A try_recv that finds wr_idx different from
\* recv_rd_idx goes on to the frame and does not return Empty, so that recv
\* returns without awaiting; and of the messages queued when the peer has
\* finished and notified, one notification each, none is left in the ring
\* when a recv called after that suspends: the calls return them one after
\* the other, whether the mailbox holds a signal or not.
C36_SuspendOnlyWhenEmpty ==
    /\ [][\A e \in Endpoints :
            /\ (a_pc[e] # "await" /\ a_pc'[e] = "await") =>
                  /\ a_pc[e] = "trying"
                  /\ r_pc[e] = "idle"
                  /\ r_res[e] = "Empty"
                  /\ ~a_ready[e]
            /\ (a_pc[e] = "trying" /\ r_pc[e] = "load_wr"
                  /\ r_pc'[e] # "load_wr"
                  /\ wr_idx[Peer(e)] # recv_rd_idx[e]) => r_pc'[e] = "header"
            /\ (r_pc[e] \notin {"idle", "load_wr"} /\ r_pc'[e] = "idle") =>
                  r_res'[e] # "Empty"]_vars
    /\ [](\A e \in harness.receivers :
            /\ a_pc[e] = "await" =>
                  \/ received[Peer(e)] = << >>
                  \/ received[Peer(e)] = sent[Peer(e)]
            /\ notified[Peer(e)] <= Len(sent[Peer(e)]))

\* The last of the queued messages was returned by a recv whose armed poll
\* was pending: the mailbox held no signal for it, the notifications of all
\* the messages having been taken before.
C36_Witness ==
    /\ a_pc[2] = "idle"
    /\ r_res[2] = "Ok"
    /\ ~a_ready[2]
    /\ Len(received[1]) = MaxSends - 1
    /\ received[1] = sent[1]
    /\ heard[2] = notified[1]
    /\ notified[1] = MaxSends - 1

\* C37: IcMsg::try_recv of lib.rs copies exactly L payload bytes, also where
\* the payload wraps across the end of the data area.  For every buffer of
\* C >= L bytes it reads inside the data area and writes inside the buffer
\* only, what it returns is the message as sent, and the bytes of the
\* buffer after the first L are as the caller passed them (zero).
C37_LibCopyExact ==
    \A e \in harness.receivers :
        /\ ~r_oob[e]
        /\ \A k \in 1..Len(received[Peer(e)]) :
              /\ k <= Len(sent[Peer(e)])
              /\ received[Peer(e)][k] = sent[Peer(e)][k]
        /\ (r_pc[e] = "lib_store_rd" \/ (r_pc[e] = "idle" /\ r_res[e] = "Ok")) =>
              \A j \in (r_len[e] + 1)..Len(r_out[e]) : r_out[e][j] = 0

\* C38: try_recv publishes the advanced rd_idx only after the payload has
\* been copied out of the ring.  The shared rd_idx changes in the last step
\* of a try_recv alone, which leaves the caller's buffer as the copy filled
\* it; while a try_recv is past its test for an empty ring, the shared rd_idx
\* is still the index of the frame it reads, and from there to wr_idx the
\* ring holds the frames of the unconsumed messages, that one the first,
\* untouched by the sender in every interleaving; and what try_recv returns is
\* the oldest unconsumed message as it was sent.
C38_PublishAfterCopy ==
    /\ [][\A e \in Endpoints :
            /\ rd_idx'[Peer(e)] # rd_idx[Peer(e)] =>
                  /\ r_pc[e] = "store_rd"
                  /\ r_pc'[e] = "idle"
                  /\ r_out'[e] = r_out[e]
                  /\ rd_idx'[Peer(e)] = recv_rd_idx'[e]
            /\ (r_pc[e] = "store_rd" /\ r_pc'[e] = "idle") =>
                  /\ Unconsumed(Peer(e)) # << >>
                  /\ SubSeq(r_out[e], 1, r_len[e]) = Head(Unconsumed(Peer(e)))
                  /\ received'[Peer(e)] =
                        Append(received[Peer(e)], Head(Unconsumed(Peer(e))))]_vars
    /\ [](\A e \in harness.receivers :
            r_pc[e] \in {"header", "copy", "copy_wrap", "store_rd"} =>
                /\ rd_idx[Peer(e)] = recv_rd_idx[e]
                /\ Unconsumed(Peer(e)) # << >>
                /\ \E to \in 0..(recv_buffer_len[e] - 1) :
                      FramesAt(data[Peer(e)], recv_buffer_len[e],
                               recv_rd_idx[e], to, << Head(Unconsumed(Peer(e))) >>))

\* The receiver is copying the second part of a payload that wraps while
\* the sender, refused once, is sending again with the ring still holding
\* that frame.
C38_Witness ==
    /\ r_pc[2] = "copy_wrap"
    /\ s_pc[1] = "load_rd"
    /\ s_res[1] = "InsufficientCapacity"
    /\ Len(Unconsumed(1)) >= 1

\* C39: constructing a transport resets the cached send_wr_idx and
\* recv_rd_idx and both indices of the send region to zero and writes
\* nothing to the recv region or to a data area; and when the peer has
\* published its frame before the endpoint is constructed, the first
\* try_recv of the endpoint, that of its init, returns that frame.
C39_NewLeavesRecvRegion ==
    /\ [][\A e \in Endpoints :
            /\ (b_pc[e] = "new" /\ b_pc'[e] # "new") =>
                  /\ wr_idx'[e] = 0
                  /\ rd_idx' = rd_idx
                  /\ wr_idx'[Peer(e)] = wr_idx[Peer(e)]
                  /\ data' = data
            /\ (b_pc[e] = "new_rd" /\ b_pc'[e] # "new_rd") =>
                  /\ rd_idx'[e] = 0
                  /\ wr_idx'[e] = 0
                  /\ send_wr_idx'[e] = 0
                  /\ recv_rd_idx'[e] = 0
                  /\ wr_idx'[Peer(e)] = wr_idx[Peer(e)]
                  /\ rd_idx'[Peer(e)] = rd_idx[Peer(e)]
                  /\ data' = data]_vars
    /\ []((b_pc[1] = "receiving" /\ r_pc[1] = "idle") =>
             /\ r_res[1] = "Ok"
             /\ Returned(1) = sent[2][1]
             /\ received[2] = << sent[2][1] >>)

\* Endpoint 1, constructed after the peer had published its MAGIC, has
\* received it and is bonded, while the peer still waits.
C39_Witness ==
    /\ b_pc[1] = "Bonded"
    /\ received[2] = << MAGIC >>
    /\ b_pc[2] = "SentMagic"

\* C8: wr_idx = rd_idx exactly when the direction holds no unconsumed message.
C8_EmptyIffEqual ==
    \A r \in Endpoints : (wr_idx[r] = rd_idx[r]) <=> (Unconsumed(r) = << >>)

\* The ring is as full as it gets (12 of 16 bytes) and the indices differ.
C8_Witness ==
    /\ Len(Unconsumed(1)) = 3
    /\ wr_idx[1] = 12
    /\ rd_idx[1] = 0

=============================================================================
